---- MODULE Spec2Model ----
(***************************************************************************)
(* Model of the LetsClique backend (src/main.py, src/functions.py):        *)
(* registration and login, the session gate, and the profile, event,       *)
(* participation and chat endpoints, over the two databases they read and  *)
(* write.                                                                  *)
(*                                                                         *)
(* A table is a sequence of rows in insertion order.  uuid.uuid4() is a    *)
(* fresh identifier; hashlib.sha256 is an injective tagging of its input.  *)
(* Database.execute of an UPDATE yields the number of rows it changed, as  *)
(* the callers in the source read it.                                      *)
(***************************************************************************)
EXTENDS Integers, Sequences, FiniteSets, TLC

VARIABLES
    users,                  \* app_db.users: sequence of rows
    users_auth,             \* auth_db.users_auth: sequence of rows
    user_sessions,          \* auth_db.user_sessions: sequence of rows
    now,                    \* the clock datetime.now() reads, in days
    events,                 \* app_db.events: sequence of rows
    participation_requests, \* app_db.participation_requests: sequence of rows
    calls,                  \* accept_participant calls between their two statements
    resp                    \* the last call made and the response it got

vars == <<users, users_auth, user_sessions, now, events,
          participation_requests, calls, resp>>

----------------------------------------------------------------------------
(* Bounds and input sets *)

MaxUsers == 2
MaxSessions == 2
MaxRequests == 2

Emails == {"a@x.de", "b@x.de"}
Usernames == {"ann", "bob"}
\* "" is the header left empty
Passwords == {"", "pw1"}
\* instants the clock is read at: a login at 0 expires at 30, one at 1 at 31
Instants == {0, 1, 30, 31}

\* the identifiers uuid.uuid4() gives to events, in the order they are made
EventIds == {1}

NULL == "null"

\* the sessiontoken of a call that carries none (register, login, a DB-layer
\* call); tokens are pairs, so this one is a pair no sha256 digest equals
NoToken == <<"none", "">>

----------------------------------------------------------------------------
(* Helpers over tables *)

Range(s) == {s[i] : i \in 1..Len(s)}

\* the indexes of the rows of table t that satisfy the WHERE clause P
Where(t, P(_)) == {i \in 1..Len(t) : P(t[i])}

----------------------------------------------------------------------------
(* Hashing and sessions (src/functions.py) *)

sha256(s) == <<"sha256", s>>

\* hash_input_with_salt: digest of the input followed by the salt; the salt is
\* os.urandom(16), a fresh value for each call
hash_input_with_salt(input_str, salt) ==
    [salt |-> salt, hash |-> sha256(input_str \o salt)]

\* timedelta(days=30)
SessionDays == 30

\* authenticate_user: (True, user_id) on an exact (email, hash) row, else (False, None)
authenticate_user(db, email, hashed_password) ==
    LET hit == Where(db, LAMBDA r : r.email = email
                                    /\ r.hashed_password = hashed_password)
    IN  IF hit = {} THEN <<FALSE, 0>>
        ELSE <<TRUE, db[CHOOSE i \in hit : \A j \in hit : i <= j].user_id>>

authenticate_session_token_ge(sessions, current_time, user_id, token) ==
    Where(sessions, LAMBDA r : r.user_id = user_id /\ r.token = token
                               /\ r.expiry >= current_time) # {}

\* authenticate_session_token: a row with this user and token, not yet expired
authenticate_session_token(sessions, current_time, user_id, token) ==
    Where(sessions, LAMBDA r : r.user_id = user_id /\ r.token = token
                               /\ r.expiry > current_time) # {}

TokenAt_notime(email, t) == sha256(email)

\* the token generate_session_token makes for a login at clock reading t
TokenAt(email, t) == sha256(email \o ToString(t))

generate_session_token_nocheck(db, t, email, password_str) ==
    LET found == Where(db, LAMBDA r : r.email = email)
    IN  IF found = {} THEN [err |-> "Email not found."]
        ELSE
          LET row == db[CHOOSE i \in found : \A j \in found : i <= j]
          IN  [err |-> NULL,
               row |-> [user_id |-> row.user_id,
                        token   |-> TokenAt(email, t),
                        expiry  |-> t + SessionDays]]

\* the outcome of generate_session_token: the row to insert, or the
\* ValueError it raises
generate_session_token(db, t, email, password_str) ==
    LET found == Where(db, LAMBDA r : r.email = email)
    IN  IF found = {} THEN [err |-> "Email not found."]
        ELSE
          LET row == db[CHOOSE i \in found : \A j \in found : i <= j]
              hash_result == sha256(password_str \o row.salt)
              auth == authenticate_user(db, email, hash_result)
          IN  IF ~auth[1] THEN [err |-> "Authentication failed."]
              ELSE [err |-> NULL,
                    row |-> [user_id |-> row.user_id,
                             token   |-> TokenAt(email, t),
                             expiry  |-> t + SessionDays]]

----------------------------------------------------------------------------
(* Requests and responses *)

\* the call last made (endpoint, user_id and sessiontoken headers, the other
\* inputs) and the status code and body it was answered with
Resp(op, user_id, token, args, code, body) ==
    [op |-> op, user |-> user_id, token |-> token, args |-> args,
     code |-> code, body |-> body]

NoResp == Resp("none", 0, NoToken, <<>>, 0, <<>>)

\* the gate every endpoint below opens with
is_authenticated(user_id, sessiontoken) ==
    authenticate_session_token(user_sessions, now, user_id, sessiontoken)

----------------------------------------------------------------------------
(* Registration, login, the clock *)

\* POST /register_user: add_user.  The two inserts go to two databases, with
\* no transaction around them; each fails on the unique columns its table
\* declares (users.email; users_auth.email, users_auth.username).
add_user(email, username, password, location) ==
    LET user_id == Len(users) + 1
        hashed_data == hash_input_with_salt(password, "salt" \o ToString(user_id))
        user_row == [user_id |-> user_id, email |-> email,
                     username |-> username, location |-> location]
        auth_row == [user_id |-> user_id, username |-> username, email |-> email,
                     hashed_password |-> hashed_data.hash,
                     salt |-> hashed_data.salt]
    IN  /\ Len(users) < MaxUsers
        /\ IF \E r \in Range(users) : r.email = email
           THEN /\ resp' = Resp("register_user", 0, NoToken,
                                <<email, username, password>>, 500, <<>>)
                /\ UNCHANGED <<users, users_auth>>
           ELSE /\ users' = Append(users, user_row)
                /\ IF \E r \in Range(users_auth) :
                          r.email = email \/ r.username = username
                   THEN /\ resp' = Resp("register_user", 0, NoToken,
                                        <<email, username, password>>, 500, <<>>)
                        /\ UNCHANGED users_auth
                   ELSE /\ users_auth' = Append(users_auth, auth_row)
                        /\ resp' = Resp("register_user", 0, NoToken,
                                        <<email, username, password>>, 200, user_id)
        /\ UNCHANGED <<user_sessions, now, events, participation_requests, calls>>

\* GET /login_user
login_user(email, password) ==
    LET out == generate_session_token(users_auth, now, email, password)
    IN  /\ IF email = "" \/ password = ""
           THEN /\ resp' = Resp("login_user", 0, NoToken, <<email, password>>, 400,
                                "Email and password headers are required.")
                /\ UNCHANGED user_sessions
           ELSE IF out.err # NULL
           THEN /\ resp' = Resp("login_user", 0, NoToken, <<email, password>>, 400,
                                out.err)
                /\ UNCHANGED user_sessions
           ELSE /\ Len(user_sessions) < MaxSessions
                /\ user_sessions' = Append(user_sessions, out.row)
                /\ resp' = Resp("login_user", 0, NoToken, <<email, password>>, 200,
                                <<out.row.user_id, out.row.token>>)
        /\ UNCHANGED <<users, users_auth, now, events, participation_requests, calls>>

\* time passes: the next datetime.now() reads t
Tick(t) ==
    /\ t > now
    /\ now' = t
    /\ resp' = NoResp
    /\ UNCHANGED <<users, users_auth, user_sessions, events,
                   participation_requests, calls>>

----------------------------------------------------------------------------
(* Events (src/main.py, src/functions.py) *)

\* the activities table: activity_name -> activity_id
Activities == [chess |-> 1, hiking |-> 2]

\* get_activity_id: the id, or 0 where the source raises ValueError
get_activity_id(activity_name) ==
    IF activity_name \in DOMAIN Activities THEN Activities[activity_name] ELSE 0

\* a request whose session the gate refuses: 401 and nothing else
Unauthorized(op, user_id, sessiontoken, args) ==
    /\ resp' = Resp(op, user_id, sessiontoken, args, 401, "Authentication failed.")
    /\ UNCHANGED <<users, users_auth, user_sessions, now, events,
                   participation_requests, calls>>

\* a request the handler drops with an exception nothing catches: 500 and
\* nothing else
ServerError(op, user_id, sessiontoken, args) ==
    /\ resp' = Resp(op, user_id, sessiontoken, args, 500, "Internal Server Error")
    /\ UNCHANGED <<users, users_auth, user_sessions, now, events,
                   participation_requests, calls>>

\* a JSON body with no key at all
EmptyBody == [k \in {} |-> 0]

\* dict.pop(key, None) / dict.get: the value, or NULL for a key the body lacks
Get(body, key) == IF key \in DOMAIN body THEN body[key] ELSE NULL

\* POST /create_event.  event_dict carries activity_name, the age range, the
\* preferred genders; the handler sets event_id, initiated_by and location,
\* insert_event sets is_open.
create_event_endpoint(user_id, sessiontoken, event_dict) ==
    LET activity_id == get_activity_id(event_dict.activity_name)
        event == [event_id |-> Len(events) + 1,
                  activity_id |-> activity_id,
                  initiated_by |-> user_id,
                  location |-> <<0, 0>>,
                  participant_min_age |-> event_dict.participant_min_age,
                  participant_max_age |-> event_dict.participant_max_age,
                  participant_pref_genders |-> event_dict.participant_pref_genders,
                  is_open |-> TRUE]
        args == <<event_dict>>
    IN  IF ~is_authenticated(user_id, sessiontoken)
        THEN Unauthorized("create_event", user_id, sessiontoken, args)
        ELSE
          /\ IF event_dict.activity_name = ""
             THEN /\ resp' = Resp("create_event", user_id, sessiontoken, args, 400,
                                  "Activity name is required.")
                  /\ UNCHANGED events
             ELSE IF activity_id = 0
             THEN /\ resp' = Resp("create_event", user_id, sessiontoken, args, 500,
                                  <<>>)
                  /\ UNCHANGED events
             ELSE /\ event.event_id \in EventIds
                  /\ events' = Append(events, event)
                  /\ resp' = Resp("create_event", user_id, sessiontoken, args, 200,
                                  event.event_id)
          /\ UNCHANGED <<users, users_auth, user_sessions, now,
                         participation_requests, calls>>

\* UPDATE table SET **values on one row: every column the body names is written
UpdateRow(row, values) ==
    [c \in DOMAIN row |-> IF c \in DOMAIN values THEN values[c] ELSE row[c]]

\* POST /update_event.  event_data carries event_id, activity_name and any
\* other column of the events table; the handler replaces activity_name by
\* activity_id and writes the rest as it came.  Its first statement, before the
\* gate, formats event_data['event_id'] into a log line: KeyError without it.
update_event_endpoint(user_id, sessiontoken, event_data) ==
    LET activity_name == Get(event_data, "activity_name")
        activity_id == get_activity_id(activity_name)
        values == [c \in (DOMAIN event_data \ {"activity_name"}) \cup {"activity_id"}
                     |-> IF c = "activity_id" THEN activity_id ELSE event_data[c]]
        args == <<event_data>>
    IN  IF "event_id" \notin DOMAIN event_data
        THEN ServerError("update_event", user_id, sessiontoken, args)
        ELSE IF ~is_authenticated(user_id, sessiontoken)
        THEN Unauthorized("update_event", user_id, sessiontoken, args)
        ELSE
          /\ IF activity_name \in {NULL, ""}
             THEN /\ resp' = Resp("update_event", user_id, sessiontoken, args, 400,
                                  "Activity name is required.")
                  /\ UNCHANGED events
             ELSE IF activity_id = 0
             THEN /\ resp' = Resp("update_event", user_id, sessiontoken, args, 500,
                                  <<>>)
                  /\ UNCHANGED events
             ELSE /\ events' = [i \in 1..Len(events) |->
                                  IF events[i].event_id = event_data.event_id
                                  THEN UpdateRow(events[i], values)
                                  ELSE events[i]]
                  /\ resp' = Resp("update_event", user_id, sessiontoken, args, 200,
                                  "Event details updated successfully.")
          /\ UNCHANGED <<users, users_auth, user_sessions, now,
                         participation_requests, calls>>

close_event_toggle(db, event_id) ==
    [events |-> [i \in 1..Len(db) |->
                   IF db[i].event_id = event_id
                   THEN [db[i] EXCEPT !.is_open = ~db[i].is_open] ELSE db[i]],
     err |-> (Cardinality(Where(db, LAMBDA r : r.event_id = event_id)) = 0)]

close_event_noop(db, event_id) ==
    [events |-> db,
     err |-> (Cardinality(Where(db, LAMBDA r : r.event_id = event_id)) = 0)]

\* close_event: is_open = False on the rows of event_id; err where the source
\* raises ValueError (no row changed)
close_event(db, event_id) ==
    LET result == Cardinality(Where(db, LAMBDA r : r.event_id = event_id))
    IN  [events |-> [i \in 1..Len(db) |->
                       IF db[i].event_id = event_id
                       THEN [db[i] EXCEPT !.is_open = FALSE] ELSE db[i]],
         err |-> (result = 0)]

close_event_endpoint_any_caller(user_id, sessiontoken, request_data) ==
    LET closed == close_event(events, request_data.event_id)
        args == <<request_data>>
    IN  /\ "event_id" \in DOMAIN request_data
        /\ is_authenticated(user_id, sessiontoken)
        /\ events' = closed.events
        /\ resp' = Resp("delete_event", user_id, sessiontoken, args,
                        IF closed.err THEN 403 ELSE 200, <<>>)
        /\ UNCHANGED <<users, users_auth, user_sessions, now,
                       participation_requests, calls>>

\* POST /delete_event.  request_data carries event_id; the log line before the
\* gate reads it.
close_event_endpoint(user_id, sessiontoken, request_data) ==
    LET event_id == request_data.event_id
        found == Where(events, LAMBDA r : r.event_id = event_id)
        closed == close_event(events, event_id)
        args == <<request_data>>
    IN  IF "event_id" \notin DOMAIN request_data
        THEN ServerError("delete_event", user_id, sessiontoken, args)
        ELSE IF ~is_authenticated(user_id, sessiontoken)
        THEN Unauthorized("delete_event", user_id, sessiontoken, args)
        ELSE
          /\ IF found = {} \/ \E i \in found : events[i].initiated_by # user_id
             THEN /\ resp' = Resp("delete_event", user_id, sessiontoken, args, 403,
                                  "You are not authorized to close this event.")
                  /\ UNCHANGED events
             ELSE /\ events' = closed.events
                  /\ resp' = Resp("delete_event", user_id, sessiontoken, args,
                                  IF closed.err THEN 500 ELSE 200, <<>>)
          /\ UNCHANGED <<users, users_auth, user_sessions, now,
                         participation_requests, calls>>

----------------------------------------------------------------------------
(* Participation requests (src/main.py) *)

\* accepted_status: NULL while pending, then True or False
Accepted == "true"
Rejected == "false"

\* the accept_participant calls in flight, one slot each
CallSlots == {1, 2}
Idle == [pc |-> "idle", user |-> 0, token |-> NoToken, event_id |-> 0,
         participant_id |-> 0, chat_id |-> 0]

\* the rows of one (event, creator, participant) triple
TripleRows(db, event_id, creator, participant_id) ==
    Where(db, LAMBDA r : /\ r.event_id = event_id
                         /\ r.event_creator = creator
                         /\ r.request_participant = participant_id)

SetStatus_new_chat(db, hit, status) ==
    [i \in 1..Len(db) |->
       IF i \in hit
       THEN [db[i] EXCEPT !.accepted_status = status, !.chat_id = 0]
       ELSE db[i]]

\* UPDATE participation_requests SET accepted_status = status on the rows hit
SetStatus(db, hit, status) ==
    [i \in 1..Len(db) |->
       IF i \in hit THEN [db[i] EXCEPT !.accepted_status = status] ELSE db[i]]

fetch_event_creator_or_nobody(db, event_id) ==
    LET found == {db[i].initiated_by : i \in Where(db, LAMBDA r : r.event_id = event_id)}
    IN  IF found = {} THEN {0} ELSE found

fetch_event_creator_first_user(db, event_id) ==
    IF Where(db, LAMBDA r : r.event_id = event_id) = {} THEN {} ELSE {1}

\* SELECT initiated_by FROM events WHERE event_id = ...: what fetch_val may
\* give, nothing where no row has the id
fetch_event_creator(db, event_id) ==
    {db[i].initiated_by : i \in Where(db, LAMBDA r : r.event_id = event_id)}

new_chat_id_fixed(db) == 1

\* uuid.uuid4() for a chat: an identifier no row has yet
new_chat_id(db) == Len(db) + 1

\* POST /request_to_join_event
request_to_join_event_endpoint(user_id, sessiontoken, event_id) ==
    LET creators == fetch_event_creator(events, event_id)
        chat_id == new_chat_id(participation_requests)
        args == <<event_id>>
    IN  IF ~is_authenticated(user_id, sessiontoken)
        THEN Unauthorized("request_to_join_event", user_id, sessiontoken, args)
        ELSE
          /\ IF creators = {}
             THEN /\ resp' = Resp("request_to_join_event", user_id, sessiontoken,
                                  args, 404, "Event not found.")
                  /\ UNCHANGED participation_requests
             ELSE /\ Len(participation_requests) < MaxRequests
                  /\ \E event_creator \in creators :
                       participation_requests' =
                         Append(participation_requests,
                                [event_id |-> event_id,
                                 event_creator |-> event_creator,
                                 request_participant |-> user_id,
                                 accepted_status |-> NULL,
                                 chat_id |-> chat_id,
                                 chat_block |-> NULL])
                  /\ resp' = Resp("request_to_join_event", user_id, sessiontoken,
                                  args, 200, <<>>)
          /\ UNCHANGED <<users, users_auth, user_sessions, now, events, calls>>

accept_update_unless_accepted(db, user_id, participant_id, event_id) ==
    {i \in TripleRows(db, event_id, user_id, participant_id) :
        \A r \in Range(db) :
            (r.event_id = event_id /\ r.accepted_status = Accepted)
               => r.request_participant = participant_id}

accept_update_any_creator(db, user_id, participant_id, event_id) ==
    Where(db, LAMBDA r : /\ r.event_id = event_id
                         /\ r.request_participant = participant_id)

\* the rows the UPDATE of accept_participant_endpoint hits: those of the
\* (event_id, user_id as creator, participant_id) triple, whatever their status
\* and whatever the event's is_open
accept_update(db, user_id, participant_id, event_id) ==
    TripleRows(db, event_id, user_id, participant_id)

accept_participant_update_closes_first(c, user_id, sessiontoken, participant_id, event_id) ==
    LET hit == accept_update(participation_requests, user_id, participant_id,
                             event_id)
        args == <<participant_id, event_id>>
    IN  /\ calls[c].pc = "idle"
        /\ \A d \in CallSlots : d < c => calls[d].pc # "idle"
        /\ is_authenticated(user_id, sessiontoken)
        /\ events' = close_event(events, event_id).events
        /\ participation_requests' =
             SetStatus(participation_requests, hit, Accepted)
        /\ IF hit = {}
           THEN /\ resp' = Resp("accept_participant", user_id, sessiontoken,
                                args, 404, "Participation request not found.")
                /\ UNCHANGED calls
           ELSE /\ \E i \in hit :
                     calls' = [calls EXCEPT ![c] =
                                 [pc |-> "close", user |-> user_id,
                                  token |-> sessiontoken,
                                  event_id |-> event_id,
                                  participant_id |-> participant_id,
                                  chat_id |-> participation_requests[i].chat_id]]
                /\ resp' = Resp("accept_participant", user_id, sessiontoken,
                                args, 0, "updated")
        /\ UNCHANGED <<users, users_auth, user_sessions, now>>

\* POST /accept_participant, first statement: the gate and the UPDATE ...
\* RETURNING chat_id.  fetch_one takes one of the rows returned.
accept_participant_update(c, user_id, sessiontoken, participant_id, event_id) ==
    LET hit == accept_update(participation_requests, user_id, participant_id,
                             event_id)
        args == <<participant_id, event_id>>
    IN  /\ calls[c].pc = "idle"
        /\ \A d \in CallSlots : d < c => calls[d].pc # "idle"
        /\ IF ~is_authenticated(user_id, sessiontoken)
           THEN Unauthorized("accept_participant", user_id, sessiontoken, args)
           ELSE
             /\ IF hit = {}
                THEN /\ resp' = Resp("accept_participant", user_id, sessiontoken,
                                     args, 404, "Participation request not found.")
                     /\ UNCHANGED <<participation_requests, calls>>
                ELSE /\ participation_requests' =
                          SetStatus(participation_requests, hit, Accepted)
                     /\ \E i \in hit :
                          calls' = [calls EXCEPT ![c] =
                                      [pc |-> "close", user |-> user_id,
                                       token |-> sessiontoken,
                                       event_id |-> event_id,
                                       participant_id |-> participant_id,
                                       chat_id |-> participation_requests[i].chat_id]]
                     /\ resp' = Resp("accept_participant", user_id, sessiontoken,
                                     args, 0, "updated")
             /\ UNCHANGED <<users, users_auth, user_sessions, now, events>>

\* POST /accept_participant, second statement: close_event, then the response
accept_participant_close(c) ==
    LET call == calls[c]
        closed == close_event(events, call.event_id)
    IN  /\ call.pc = "close"
        /\ events' = closed.events
        /\ calls' = [calls EXCEPT ![c] = Idle]
        /\ resp' = Resp("accept_participant", call.user, call.token,
                        <<call.participant_id, call.event_id>>,
                        IF closed.err THEN 500 ELSE 200,
                        IF closed.err THEN 0 ELSE call.chat_id)
        /\ UNCHANGED <<users, users_auth, user_sessions, now,
                       participation_requests>>

remove_participant_endpoint_reopen(user_id, sessiontoken, remove_data) ==
    LET hit == TripleRows(participation_requests, remove_data.event_id, user_id,
                          remove_data.participant_id)
        args == <<remove_data>>
    IN  /\ is_authenticated(user_id, sessiontoken)
        /\ participation_requests' =
             SetStatus(participation_requests, hit, Rejected)
        /\ events' = [i \in 1..Len(events) |->
                        IF hit # {} /\ events[i].event_id = remove_data.event_id
                        THEN [events[i] EXCEPT !.is_open = TRUE] ELSE events[i]]
        /\ resp' = Resp("remove_participant", user_id, sessiontoken, args,
                        IF hit = {} THEN 404 ELSE 200, <<>>)
        /\ UNCHANGED <<users, users_auth, user_sessions, now, calls>>

remove_participant_endpoint_deletes(user_id, sessiontoken, remove_data) ==
    LET hit == TripleRows(participation_requests, remove_data.event_id, user_id,
                          remove_data.participant_id)
        args == <<remove_data>>
    IN  /\ is_authenticated(user_id, sessiontoken)
        /\ participation_requests' =
             SelectSeq(participation_requests,
                LAMBDA r : ~(/\ r.event_id = remove_data.event_id
                             /\ r.event_creator = user_id
                             /\ r.request_participant = remove_data.participant_id))
        /\ resp' = Resp("remove_participant", user_id, sessiontoken, args,
                        IF hit = {} THEN 404 ELSE 200, <<>>)
        /\ UNCHANGED <<users, users_auth, user_sessions, now, events, calls>>

remove_participant_endpoint_unless_rejected(user_id, sessiontoken, remove_data) ==
    LET hit == {i \in TripleRows(participation_requests, remove_data.event_id,
                                 user_id, remove_data.participant_id) :
                   participation_requests[i].accepted_status # Rejected}
        args == <<remove_data>>
    IN  /\ is_authenticated(user_id, sessiontoken)
        /\ participation_requests' =
             SetStatus(participation_requests, hit, Rejected)
        /\ resp' = Resp("remove_participant", user_id, sessiontoken, args,
                        IF hit = {} THEN 404 ELSE 200, <<>>)
        /\ UNCHANGED <<users, users_auth, user_sessions, now, events, calls>>

accept_participant_close_raises_rollback(c) ==
    LET call == calls[c]
        hit == TripleRows(participation_requests, call.event_id, call.user,
                          call.participant_id)
    IN  /\ call.pc = "close"
        /\ participation_requests' = SetStatus(participation_requests, hit, NULL)
        /\ calls' = [calls EXCEPT ![c] = Idle]
        /\ resp' = Resp("accept_participant", call.user, call.token,
                        <<call.participant_id, call.event_id>>, 500, 0)
        /\ UNCHANGED <<users, users_auth, user_sessions, now, events>>

\* POST /accept_participant, second statement, when the UPDATE of close_event
\* raises in the database layer: the exception leaves the handler, the call
\* is answered 500, and the first statement's UPDATE stays as committed
accept_participant_close_raises(c) ==
    LET call == calls[c]
    IN  /\ call.pc = "close"
        /\ calls' = [calls EXCEPT ![c] = Idle]
        /\ resp' = Resp("accept_participant", call.user, call.token,
                        <<call.participant_id, call.event_id>>, 500, 0)
        /\ UNCHANGED <<users, users_auth, user_sessions, now, events,
                       participation_requests>>

\* close_event called on its own: it returns None or raises ValueError
close_event_call(event_id) ==
    LET closed == close_event(events, event_id)
    IN  /\ events' = closed.events
        /\ resp' = Resp("close_event", 0, NoToken, <<event_id>>, 0,
                        IF closed.err THEN "ValueError" ELSE "None")
        /\ UNCHANGED <<users, users_auth, user_sessions, now,
                       participation_requests, calls>>

\* POST /remove_participant.  remove_data carries participant_id and event_id;
\* the log line before the gate reads both.
remove_participant_endpoint(user_id, sessiontoken, remove_data) ==
    LET hit == TripleRows(participation_requests, remove_data.event_id, user_id,
                          remove_data.participant_id)
        result == Cardinality(hit)
        args == <<remove_data>>
    IN  IF {"participant_id", "event_id"} \ DOMAIN remove_data # {}
        THEN ServerError("remove_participant", user_id, sessiontoken, args)
        ELSE IF ~is_authenticated(user_id, sessiontoken)
        THEN Unauthorized("remove_participant", user_id, sessiontoken, args)
        ELSE
          /\ participation_requests' =
               SetStatus(participation_requests, hit, Rejected)
          /\ resp' = Resp("remove_participant", user_id, sessiontoken, args,
                          IF result = 0 THEN 404 ELSE 200, <<>>)
          /\ UNCHANGED <<users, users_auth, user_sessions, now, events, calls>>

did_I_match_query_any_event(reqs, evs, user_id) ==
    SelectSeq(reqs, LAMBDA r : r.request_participant = user_id)

\* the SELECT of did_I_match_endpoint: the requests of the user joined with
\* the events on event_id, where the event is open; no condition on
\* accepted_status
did_I_match_query(reqs, evs, user_id) ==
    SelectSeq(reqs, LAMBDA r : /\ r.request_participant = user_id
                               /\ \E e \in Range(evs) :
                                    e.event_id = r.event_id /\ e.is_open)

\* GET /did_I_match
did_I_match_endpoint(user_id, sessiontoken) ==
    LET results == did_I_match_query(participation_requests, events, user_id)
        body == [event_id |-> [i \in 1..Len(results) |-> results[i].event_id],
                 chat_id |-> [i \in 1..Len(results) |-> results[i].chat_id],
                 event_creator |->
                     [i \in 1..Len(results) |-> results[i].event_creator]]
    IN  IF ~is_authenticated(user_id, sessiontoken)
        THEN Unauthorized("did_I_match", user_id, sessiontoken, <<>>)
        ELSE
          /\ resp' = Resp("did_I_match", user_id, sessiontoken, <<>>, 200, body)
          /\ UNCHANGED <<users, users_auth, user_sessions, now, events,
                         participation_requests, calls>>

----------------------------------------------------------------------------
(* Profiles, the event filter, chats (src/main.py, src/functions.py) *)

\* float(coord) on the pieces of the location header; a piece outside the
\* table is one float() raises ValueError on
Float == [c \in {"0", "1"} |-> IF c = "0" THEN 0 ELSE 1]

\* POST /update_user_location.  location is the header split on ","; the
\* handler writes the list of floats to the user's row, whatever its length.
update_user_location_endpoint(user_id, sessiontoken, location) ==
    LET new_location_list == [i \in 1..Len(location) |-> Float[location[i]]]
        args == <<location>>
    IN  IF ~is_authenticated(user_id, sessiontoken)
        THEN Unauthorized("update_user_location", user_id, sessiontoken, args)
        ELSE IF \E i \in 1..Len(location) : location[i] \notin DOMAIN Float
        THEN ServerError("update_user_location", user_id, sessiontoken, args)
        ELSE
          /\ users' = [i \in 1..Len(users) |->
                         IF users[i].user_id = user_id
                         THEN [users[i] EXCEPT !.location = new_location_list]
                         ELSE users[i]]
          /\ resp' = Resp("update_user_location", user_id, sessiontoken, args, 200,
                          "Location updated successfully for user and their open events.")
          /\ UNCHANGED <<users_auth, user_sessions, now, events,
                         participation_requests, calls>>

\* POST /update_user_profile.  user_data is a User; every field the body sets
\* is written to the row of user_id (columns kept here: username, email,
\* location).  users.email is unique.
update_user_profile_endpoint(user_id, sessiontoken, user_data) ==
    LET hit == Where(users, LAMBDA r : r.user_id = user_id)
        args == <<user_data>>
    IN  IF ~is_authenticated(user_id, sessiontoken)
        THEN Unauthorized("update_user_profile", user_id, sessiontoken, args)
        ELSE IF /\ hit # {}
                /\ \E r \in Range(users) :
                      r.user_id # user_id /\ r.email = user_data.email
        THEN ServerError("update_user_profile", user_id, sessiontoken, args)
        ELSE
          /\ users' = [i \in 1..Len(users) |->
                         IF i \in hit THEN UpdateRow(users[i], user_data)
                         ELSE users[i]]
          /\ resp' = Resp("update_user_profile", user_id, sessiontoken, args, 200,
                          "Profile updated successfully for the user.")
          /\ UNCHANGED <<users_auth, user_sessions, now, events,
                         participation_requests, calls>>

\* get_user_location: the location column of the user's row, <<>> where the
\* source raises ValueError (no such user)
get_user_location(db, user_id) ==
    LET hit == Where(db, LAMBDA r : r.user_id = user_id)
    IN  IF hit = {} THEN <<>>
        ELSE db[CHOOSE i \in hit : \A j \in hit : i <= j].location

\* the points the model places users and events at, as [latitude, longitude]
\* in whole degrees
Grid == {<<0, 0>>, <<0, 1>>, <<1, 1>>}

\* haversine_distance: int(round(6371.0 * c)) of the source's formula, here
\* its values at the points of Grid; -1 where the source raises ValueError
\* (a location that is not a list of 2 elements)
haversine_distance(loc1, loc2) ==
    IF Len(loc1) # 2 \/ Len(loc2) # 2 THEN -1
    ELSE IF loc1 = loc2 THEN 0
    ELSE IF {loc1, loc2} = {<<0, 0>>, <<1, 1>>} THEN 157
    ELSE 111

\* The formula of haversine_distance in fixed point.  Numbers are integers in
\* units of 1/Scale; angles stay in degrees (math.radians is a change of
\* unit), coordinates are multiples of 30 degrees so that every half
\* difference is a multiple of 15.
Scale == 10000

\* R = 6371.0, the radius of the Earth in kilometres
R == 6371

\* math.sin at 0, 15, .., 90 degrees
SinTable == <<0, 2588, 5000, 7071, 8660, 9659, 10000>>

RECURSIVE Sin(_)
\* math.sin at a multiple of 15 degrees: odd, and sin(x + 180) = -sin(x)
Sin(deg) ==
    IF deg < 0 THEN 0 - Sin(0 - deg)
    ELSE IF deg > 180 THEN 0 - Sin(deg - 180)
    ELSE IF deg > 90 THEN Sin(180 - deg)
    ELSE SinTable[(deg \div 15) + 1]

\* math.cos at a multiple of 15 degrees
Cos(deg) == Sin(90 - deg)

RECURSIVE SqrtBetween(_, _, _)
\* the largest r in lo..hi with r * r <= n, by bisection
SqrtBetween(n, lo, hi) ==
    IF lo = hi THEN lo
    ELSE LET mid == (lo + hi + 1) \div 2
         IN  IF mid * mid <= n THEN SqrtBetween(n, mid, hi)
             ELSE SqrtBetween(n, lo, mid - 1)

\* math.sqrt of a number between 0 and 1, rounded down
Sqrt(v) == SqrtBetween(v * Scale, 0, Scale)

\* math.atan of a number between 0 and 1, in radians, to within 0.004
Atan(t) == (7854 * t) \div Scale + (2730 * ((t * (Scale - t)) \div Scale)) \div Scale

\* math.atan2(y, x) for y, x >= 0 that are not both 0, in radians
Atan2(y, x) ==
    IF y <= x THEN Atan((y * Scale) \div x)
    ELSE 15708 - Atan((x * Scale) \div y)

haversine_distance_formula_lat1(loc1, loc2) ==
    IF ~(Len(loc1) = 2 /\ Len(loc2) = 2) THEN -1
    ELSE
      LET dlat == loc2[1] - loc1[1]
          dlon == loc2[2] - loc1[2]
          a == (Sin(dlat \div 2) * Sin(dlat \div 2)) \div Scale
               + (((Cos(loc1[1]) * Cos(loc1[1])) \div Scale)
                   * ((Sin(dlon \div 2) * Sin(dlon \div 2)) \div Scale))
                 \div Scale
          c == 2 * Atan2(Sqrt(a), Sqrt(Scale - a))
      IN  (R * c + Scale \div 2) \div Scale

\* haversine_distance by its formula: -1 where the source raises ValueError
\* (a location that is not a list of 2 elements), else int(round(R * c))
haversine_distance_formula(loc1, loc2) ==
    IF ~(Len(loc1) = 2 /\ Len(loc2) = 2) THEN -1
    ELSE
      LET lat1 == loc1[1]
          lon1 == loc1[2]
          lat2 == loc2[1]
          lon2 == loc2[2]
          dlat == lat2 - lat1
          dlon == lon2 - lon1
          a == (Sin(dlat \div 2) * Sin(dlat \div 2)) \div Scale
               + (((Cos(lat1) * Cos(lat2)) \div Scale)
                   * ((Sin(dlon \div 2) * Sin(dlon \div 2)) \div Scale))
                 \div Scale
          c == 2 * Atan2(Sqrt(a), Sqrt(Scale - a))
          distance == R * c
      IN  (distance + Scale \div 2) \div Scale

\* haversine_distance called on its own with two locations
haversine_distance_call(loc1, loc2) ==
    /\ resp' = Resp("haversine_distance", 0, NoToken, <<loc1, loc2>>, 0,
                    haversine_distance_formula(loc1, loc2))
    /\ UNCHANGED <<users, users_auth, user_sessions, now, events,
                   participation_requests, calls>>

relevant_events_query_containment(db, activity_ids, filter_criteria) ==
    SelectSeq(db,
       LAMBDA e : /\ e.activity_id \in activity_ids
                  /\ e.participant_min_age >= filter_criteria.min_age
                  /\ e.participant_max_age <= filter_criteria.max_age)

relevant_events_query_open_only(db, activity_ids, filter_criteria) ==
    SelectSeq(db,
       LAMBDA e : /\ e.activity_id \in activity_ids
                  /\ e.participant_min_age <= filter_criteria.max_age
                  /\ e.participant_max_age >= filter_criteria.min_age
                  /\ e.is_open)

\* the SELECT of filter_events_endpoint: the events of the activities whose
\* age range meets the criteria's, in the order of the table (the query has
\* no ORDER BY)
relevant_events_query(db, activity_ids, filter_criteria) ==
    SelectSeq(db,
       LAMBDA e : /\ e.activity_id \in activity_ids
                  /\ e.participant_min_age <= filter_criteria.max_age
                  /\ e.participant_max_age >= filter_criteria.min_age)

filter_relevant_events_strict(rows, user_location, criteria) ==
    SelectSeq(rows,
       LAMBDA e : /\ e.participant_pref_genders \cap criteria.pref_genders # {}
                  /\ haversine_distance(user_location, e.location)
                       < criteria.radius)

filter_relevant_events_reversed(rows, user_location, criteria) ==
    LET kept == SelectSeq(rows,
                   LAMBDA e : /\ e.participant_pref_genders
                                   \cap criteria.pref_genders # {}
                              /\ haversine_distance(user_location, e.location)
                                   <= criteria.radius)
    IN  [i \in 1..Len(kept) |-> kept[Len(kept) + 1 - i]]

\* the list comprehension of filter_events_endpoint: the events that share a
\* preferred gender with the criteria and lie within the radius of the
\* caller's location, in the order they came in
filter_relevant_events(all_relevant_events, user_location, filter_criteria) ==
    SelectSeq(all_relevant_events,
       LAMBDA e : /\ e.participant_pref_genders \cap filter_criteria.pref_genders
                       # {}
                  /\ haversine_distance(user_location, e.location)
                       <= filter_criteria.radius)

\* POST /filter_events
filter_events_endpoint(user_id, sessiontoken, filter_criteria) ==
    LET user_location == get_user_location(users, user_id)
        names == filter_criteria.activity_names
        activity_ids == {get_activity_id(names[i]) : i \in 1..Len(names)}
        all_relevant_events ==
            relevant_events_query(events, activity_ids, filter_criteria)
        shares_gender(e) ==
            e.participant_pref_genders \cap filter_criteria.pref_genders # {}
        filtered_events ==
            filter_relevant_events(all_relevant_events, user_location,
                                   filter_criteria)
        n == Len(filtered_events)
        args == <<filter_criteria>>
    IN  IF ~is_authenticated(user_id, sessiontoken)
        THEN Unauthorized("filter_events", user_id, sessiontoken, args)
        ELSE IF \/ user_location = <<>>
                \/ 0 \in activity_ids
                \/ \E e \in Range(all_relevant_events) :
                      /\ shares_gender(e)
                      /\ haversine_distance(user_location, e.location) = -1
        THEN ServerError("filter_events", user_id, sessiontoken, args)
        ELSE
          /\ resp' = Resp("filter_events", user_id, sessiontoken, args, 200,
                 [event_ids |-> [i \in 1..n |-> filtered_events[i].event_id],
                  event_locations |-> [i \in 1..n |-> filtered_events[i].location],
                  event_activities |->
                      [i \in 1..n |-> filtered_events[i].activity_id]])
          /\ UNCHANGED <<users, users_auth, user_sessions, now, events,
                         participation_requests, calls>>

\* GET /is_participant: the accepted_status of one request of the pair
\* (fetch_one), False when the pair has none
is_participant_endpoint(user_id, sessiontoken, event_id, participant_id) ==
    LET hit == Where(participation_requests,
                     LAMBDA r : /\ r.event_id = event_id
                                /\ r.request_participant = participant_id)
        args == <<event_id, participant_id>>
    IN  IF ~is_authenticated(user_id, sessiontoken)
        THEN Unauthorized("is_participant", user_id, sessiontoken, args)
        ELSE
          /\ IF hit = {}
             THEN resp' = Resp("is_participant", user_id, sessiontoken, args, 200,
                               Rejected)
             ELSE \E i \in hit :
                    resp' = Resp("is_participant", user_id, sessiontoken, args, 200,
                                 participation_requests[i].accepted_status)
          /\ UNCHANGED <<users, users_auth, user_sessions, now, events,
                         participation_requests, calls>>

\* GET /get_incoming_requests: the participants of the requests of an event
\* the caller created, with their locations
get_incoming_requests_endpoint(user_id, sessiontoken, event_id) ==
    LET result == SelectSeq(participation_requests,
                     LAMBDA r : r.event_id = event_id /\ r.event_creator = user_id)
        user_ids == [i \in 1..Len(result) |-> result[i].request_participant]
        locations == [i \in 1..Len(result) |-> get_user_location(users, user_ids[i])]
        args == <<event_id>>
    IN  IF ~is_authenticated(user_id, sessiontoken)
        THEN Unauthorized("get_incoming_requests", user_id, sessiontoken, args)
        ELSE IF \E i \in 1..Len(result) : locations[i] = <<>>
        THEN ServerError("get_incoming_requests", user_id, sessiontoken, args)
        ELSE
          /\ IF Len(result) = 0
             THEN resp' = Resp("get_incoming_requests", user_id, sessiontoken, args,
                       404, "No incoming join requests found for the specified event.")
             ELSE resp' = Resp("get_incoming_requests", user_id, sessiontoken, args,
                       200, [user_ids |-> user_ids, locations |-> locations])
          /\ UNCHANGED <<users, users_auth, user_sessions, now, events,
                         participation_requests, calls>>

ChatRows_any_user(db, chat_id, user_id) ==
    Where(db, LAMBDA r : r.chat_id = chat_id)

\* the requests of one chat that user_id created or asked to join
ChatRows(db, chat_id, user_id) ==
    Where(db, LAMBDA r : /\ r.chat_id = chat_id
                         /\ (r.event_creator = user_id
                             \/ r.request_participant = user_id))

\* GET /read_chatblock.  chat_data carries chat_id; the log line before the
\* gate reads it.
read_chatblock_endpoint(user_id, sessiontoken, chat_data) ==
    LET hit == ChatRows(participation_requests, chat_data.chat_id, user_id)
        args == <<chat_data>>
    IN  IF "chat_id" \notin DOMAIN chat_data
        THEN ServerError("read_chatblock", user_id, sessiontoken, args)
        ELSE IF ~is_authenticated(user_id, sessiontoken)
        THEN Unauthorized("read_chatblock", user_id, sessiontoken, args)
        ELSE
          /\ IF hit = {}
             THEN resp' = Resp("read_chatblock", user_id, sessiontoken, args, 404,
                               "Chatblock not found.")
             ELSE \E i \in hit :
                    resp' = Resp("read_chatblock", user_id, sessiontoken, args, 200,
                                 participation_requests[i].chat_block)
          /\ UNCHANGED <<users, users_auth, user_sessions, now, events,
                         participation_requests, calls>>

write_chatblock_endpoint_appends(user_id, sessiontoken, chat_data) ==
    LET chat_id == chat_data[1][1]
        chat_block == chat_data[1][2]
        hit == ChatRows(participation_requests, chat_id, user_id)
        args == <<chat_data>>
    IN  /\ is_authenticated(user_id, sessiontoken)
        /\ participation_requests' =
             [i \in 1..Len(participation_requests) |->
                IF i \in hit
                THEN [participation_requests[i] EXCEPT !.chat_block =
                        IF @ = NULL THEN chat_block ELSE @ \o chat_block]
                ELSE participation_requests[i]]
        /\ resp' = Resp("write_chatblock", user_id, sessiontoken, args,
                        IF hit = {} THEN 404 ELSE 200, <<>>)
        /\ UNCHANGED <<users, users_auth, user_sessions, now, events, calls>>

\* POST /write_chatblock.  chat_data is the body's (chat_id, text) pairs in
\* order; the handler takes the first key, which the log line before the gate
\* already reads: IndexError on a body without keys.
write_chatblock_endpoint(user_id, sessiontoken, chat_data) ==
    LET chat_id == chat_data[1][1]
        chat_block == chat_data[1][2]
        hit == ChatRows(participation_requests, chat_id, user_id)
        result == Cardinality(hit)
        args == <<chat_data>>
    IN  IF Len(chat_data) = 0
        THEN ServerError("write_chatblock", user_id, sessiontoken, args)
        ELSE IF ~is_authenticated(user_id, sessiontoken)
        THEN Unauthorized("write_chatblock", user_id, sessiontoken, args)
        ELSE
          /\ participation_requests' =
               [i \in 1..Len(participation_requests) |->
                  IF i \in hit
                  THEN [participation_requests[i] EXCEPT !.chat_block = chat_block]
                  ELSE participation_requests[i]]
          /\ resp' = Resp("write_chatblock", user_id, sessiontoken, args,
                          IF result = 0 THEN 404 ELSE 200, <<>>)
          /\ UNCHANGED <<users, users_auth, user_sessions, now, events, calls>>

----------------------------------------------------------------------------
(* SpecAuth: registration, login and the session gate, from the empty      *)
(* databases, with the clock running                                       *)

\* the tokens a caller may present: every token a login can have made, and one
\* no login made
TokenInputs == {TokenAt(e, t) : e \in Emails, t \in Instants} \cup {sha256("bogus")}

InitAuth ==
    /\ users = <<>>
    /\ users_auth = <<>>
    /\ user_sessions = <<>>
    /\ now = 0
    /\ events = <<>>
    /\ participation_requests = <<>>
    /\ calls = [c \in CallSlots |-> Idle]
    /\ resp = NoResp

Register ==
    \E email \in Emails, username \in Usernames, password \in Passwords :
        add_user(email, username, password, <<0, 0>>)

Login ==
    \E email \in Emails \cup {""}, password \in Passwords \cup {"pw2"} :
        login_user(email, password)

Clock == \E t \in Instants : Tick(t)

DidIMatchAuth ==
    \E user_id \in 1..MaxUsers, sessiontoken \in TokenInputs :
        did_I_match_endpoint(user_id, sessiontoken)

NextAuth == Register \/ Login \/ Clock \/ DidIMatchAuth

SpecAuth == InitAuth /\ [][NextAuth]_vars

----------------------------------------------------------------------------
(* Spec: the event and participation endpoints, called by three registered *)
(* users who have logged in                                                *)

MainEmails == <<"a@x.de", "b@x.de", "c@x.de">>
MainUsers == {1, 2, 3}

\* the token of the session user_id opened at instant 0
TokenOf(user_id) == TokenAt(MainEmails[user_id], 0)

\* what a caller presents here: the token of the own session
TokensFor(user_id) == {TokenOf(user_id)}

EventDicts ==
    {[activity_name |-> "chess", participant_min_age |-> 18,
      participant_max_age |-> 30, participant_pref_genders |-> {"male", "female"}]}

\* bodies of update_event: the documented fields alone, and with the is_open
\* or the initiated_by column added
EventUpdates ==
    {[event_id |-> e, activity_name |-> "chess", participant_min_age |-> 18]
        : e \in EventIds}
    \cup {[event_id |-> e, activity_name |-> "chess", is_open |-> TRUE]
        : e \in EventIds}
    \cup {[event_id |-> e, activity_name |-> "chess", initiated_by |-> 2]
        : e \in EventIds}

Init ==
    /\ users = [u \in MainUsers |->
                  [user_id |-> u, email |-> MainEmails[u],
                   username |-> "user" \o ToString(u), location |-> <<0, 0>>]]
    /\ users_auth = [u \in MainUsers |->
                  [user_id |-> u, username |-> "user" \o ToString(u),
                   email |-> MainEmails[u],
                   hashed_password |->
                       hash_input_with_salt("pw1", "salt" \o ToString(u)).hash,
                   salt |-> "salt" \o ToString(u)]]
    /\ user_sessions = [u \in MainUsers |->
                  [user_id |-> u, token |-> TokenOf(u), expiry |-> SessionDays]]
    /\ now = 1
    /\ events = <<>>
    /\ participation_requests = <<>>
    /\ calls = [c \in CallSlots |-> Idle]
    /\ resp = NoResp

CreateEvent ==
    \E user_id \in {1}, event_dict \in EventDicts :
      \E sessiontoken \in TokensFor(user_id) :
        create_event_endpoint(user_id, sessiontoken, event_dict)

UpdateEvent ==
    \E user_id \in {1}, event_data \in EventUpdates :
      \E sessiontoken \in TokensFor(user_id) :
        update_event_endpoint(user_id, sessiontoken, event_data)

\* bodies of delete_event
CloseBodies == {[event_id |-> e] : e \in EventIds}

CloseEvent ==
    \E user_id \in {1, 2}, request_data \in CloseBodies :
      \E sessiontoken \in TokensFor(user_id) :
        close_event_endpoint(user_id, sessiontoken, request_data)

RequestToJoin ==
    \E user_id \in {2, 3}, event_id \in EventIds :
      \E sessiontoken \in TokensFor(user_id) :
        request_to_join_event_endpoint(user_id, sessiontoken, event_id)

AcceptUpdate ==
    \E c \in CallSlots, user_id \in {1, 2}, participant_id \in {2, 3},
       event_id \in EventIds :
      \E sessiontoken \in TokensFor(user_id) :
        accept_participant_update(c, user_id, sessiontoken, participant_id,
                                  event_id)

AcceptClose == \E c \in CallSlots : accept_participant_close(c)

\* bodies of remove_participant
RemoveBodies ==
    {[participant_id |-> p, event_id |-> e] : p \in {2, 3}, e \in EventIds}

RemoveParticipant ==
    \E user_id \in {1, 2}, remove_data \in RemoveBodies :
      \E sessiontoken \in TokensFor(user_id) :
        remove_participant_endpoint(user_id, sessiontoken, remove_data)

Next ==
    \/ CreateEvent
    \/ UpdateEvent
    \/ CloseEvent
    \/ RequestToJoin
    \/ AcceptUpdate
    \/ AcceptClose
    \/ RemoveParticipant

Spec == Init /\ [][Next]_vars

\* SpecSeq: the same endpoints with every call answered before the next one
\* is made (an accept_participant call runs its two statements back to back)
AllIdle == \A c \in CallSlots : calls[c].pc = "idle"

NextSeq ==
    \/ AllIdle /\ CreateEvent
    \/ AllIdle /\ UpdateEvent
    \/ AllIdle /\ CloseEvent
    \/ AllIdle /\ RequestToJoin
    \/ AllIdle /\ AcceptUpdate
    \/ AcceptClose
    \/ AllIdle /\ RemoveParticipant

SpecSeq == Init /\ [][NextSeq]_vars

----------------------------------------------------------------------------
(* SpecChat: the endpoints of SpecSeq together with the chats and          *)
(* did_I_match, called one at a time by the same three users; requests     *)
(* also name an event nobody made                                          *)

\* event_id headers of request_to_join_event: the event made and one never made
RequestedEventIds == EventIds \cup {2}

ChatRequestToJoin ==
    \E user_id \in {2, 3}, event_id \in RequestedEventIds :
      \E sessiontoken \in TokensFor(user_id) :
        request_to_join_event_endpoint(user_id, sessiontoken, event_id)

\* the chat ids uuid4 hands out here, and the texts written
ChatIds == 1..MaxRequests
Texts == {"hi"}

\* bodies of read_chatblock and of write_chatblock
ChatReads == {[chat_id |-> k] : k \in ChatIds}
ChatWrites == {<<<<k, t>>>> : k \in ChatIds, t \in Texts}

ReadChat ==
    \E user_id \in MainUsers, chat_data \in ChatReads :
      \E sessiontoken \in TokensFor(user_id) :
        read_chatblock_endpoint(user_id, sessiontoken, chat_data)

WriteChat ==
    \E user_id \in MainUsers, chat_data \in ChatWrites :
      \E sessiontoken \in TokensFor(user_id) :
        write_chatblock_endpoint(user_id, sessiontoken, chat_data)

DidIMatch ==
    \E user_id \in {2, 3} :
      \E sessiontoken \in TokensFor(user_id) :
        did_I_match_endpoint(user_id, sessiontoken)

\* bodies of update_event that carry the is_open column
ReopenUpdates == {u \in EventUpdates : "is_open" \in DOMAIN u}

ChatUpdateEvent ==
    \E user_id \in {1}, event_data \in ReopenUpdates :
      \E sessiontoken \in TokensFor(user_id) :
        update_event_endpoint(user_id, sessiontoken, event_data)

\* every call is answered before the next one is made
NextChat ==
    \/ AllIdle /\ CreateEvent
    \/ AllIdle /\ ChatUpdateEvent
    \/ AllIdle /\ CloseEvent
    \/ AllIdle /\ ChatRequestToJoin
    \/ AllIdle /\ AcceptUpdate
    \/ AcceptClose
    \/ AllIdle /\ RemoveParticipant
    \/ AllIdle /\ ReadChat
    \/ AllIdle /\ WriteChat
    \/ AllIdle /\ DidIMatch

SpecChat == Init /\ [][NextChat]_vars

----------------------------------------------------------------------------
(* SpecWrite: requests and their chats, written to with two texts by the   *)
(* creator and the participants, one call at a time                        *)

\* the texts written here, and the bodies of write_chatblock that carry them
WriteTexts == {"hi", "yo"}
WriteBodies == {<<<<k, t>>>> : k \in ChatIds, t \in WriteTexts}

WriteChatTexts ==
    \E user_id \in MainUsers, chat_data \in WriteBodies :
      \E sessiontoken \in TokensFor(user_id) :
        write_chatblock_endpoint(user_id, sessiontoken, chat_data)

NextWrite ==
    \/ CreateEvent
    \/ ChatRequestToJoin
    \/ ReadChat
    \/ WriteChatTexts

SpecWrite == Init /\ [][NextWrite]_vars

----------------------------------------------------------------------------
(* SpecClose: the calls of SpecSeq, close_event called on its own with any *)
(* event id, and the close step of accept_participant failing              *)

CloseEventCall == \E event_id \in RequestedEventIds : close_event_call(event_id)

AcceptCloseRaises == \E c \in CallSlots : accept_participant_close_raises(c)

NextClose ==
    \/ AllIdle /\ CreateEvent
    \/ AllIdle /\ UpdateEvent
    \/ AllIdle /\ CloseEvent
    \/ AllIdle /\ RequestToJoin
    \/ AllIdle /\ AcceptUpdate
    \/ AcceptClose
    \/ AcceptCloseRaises
    \/ AllIdle /\ RemoveParticipant
    \/ AllIdle /\ CloseEventCall

SpecClose == Init /\ [][NextClose]_vars

----------------------------------------------------------------------------
(* SpecFilter: filter_events over tables of two events, called by a user who *)
(* moves about the grid, while the initiator closes the events              *)

\* an events row as create_event and update_event leave it
EventRow(event_id, activity_id, location, min_age, max_age, genders) ==
    [event_id |-> event_id, activity_id |-> activity_id, initiated_by |-> 1,
     location |-> location, participant_min_age |-> min_age,
     participant_max_age |-> max_age, participant_pref_genders |-> genders,
     is_open |-> TRUE]

\* both events lie at the origin, where create_event puts every event
FilterTables ==
    {<<EventRow(1, a, <<0, 0>>, 18, 30, g),
       EventRow(2, 1, <<0, 0>>, r[1], r[2], h)>> :
        a \in {1, 2}, g \in {{"male"}, {"female", "male"}},
        r \in {<<18, 30>>, <<31, 40>>}, h \in {{"female"}}}

\* bodies of filter_events; "golf" is no activity
FilterCriteria ==
    {[activity_names |-> n, pref_genders |-> {"female"}, min_age |-> a[1],
      max_age |-> a[2], radius |-> r] :
        n \in {<<"chess">>, <<"chess", "hiking">>, <<"chess", "golf">>},
        a \in {<<25, 40>>, <<31, 40>>, <<10, 17>>},
        r \in {110, 111, 157}}

\* location headers: points of the grid, and one coordinate alone
FilterLocations == {<<"0", "0">>, <<"0", "1">>, <<"1", "1">>, <<"0">>}

InitFilter ==
    /\ users = [u \in MainUsers |->
                  [user_id |-> u, email |-> MainEmails[u],
                   username |-> "user" \o ToString(u), location |-> <<0, 0>>]]
    /\ users_auth = [u \in MainUsers |->
                  [user_id |-> u, username |-> "user" \o ToString(u),
                   email |-> MainEmails[u],
                   hashed_password |->
                       hash_input_with_salt("pw1", "salt" \o ToString(u)).hash,
                   salt |-> "salt" \o ToString(u)]]
    /\ user_sessions = [u \in MainUsers |->
                  [user_id |-> u, token |-> TokenOf(u), expiry |-> SessionDays]]
    /\ now = 1
    /\ events \in FilterTables
    /\ participation_requests = <<>>
    /\ calls = [c \in CallSlots |-> Idle]
    /\ resp = NoResp

FilterEvents ==
    \E user_id \in {2}, filter_criteria \in FilterCriteria :
      \E sessiontoken \in TokensFor(user_id) :
        filter_events_endpoint(user_id, sessiontoken, filter_criteria)

FilterUpdateLocation ==
    \E user_id \in {2}, location \in FilterLocations :
      \E sessiontoken \in TokensFor(user_id) :
        update_user_location_endpoint(user_id, sessiontoken, location)

\* bodies of delete_event, sent by the initiator of the two events
FilterCloseBodies == {[event_id |-> e] : e \in {1, 2}}

FilterCloseEvent ==
    \E user_id \in {1}, request_data \in FilterCloseBodies :
      \E sessiontoken \in TokensFor(user_id) :
        close_event_endpoint(user_id, sessiontoken, request_data)

NextFilter == FilterEvents \/ FilterUpdateLocation \/ FilterCloseEvent

SpecFilter == InitFilter /\ [][NextFilter]_vars

----------------------------------------------------------------------------
(* SpecDistance: haversine_distance applied to pairs of locations          *)

\* locations: points at multiples of 30 degrees, poles and the date line
\* among them, and lists that are not pairs
DistanceLocations ==
    {<<lat, lon>> : lat \in {-90, -60, 0, 30, 90}, lon \in {-150, 0, 30, 180}}
    \cup {<<0>>, <<0, 0, 0>>}

HaversineDistance ==
    \E loc1 \in DistanceLocations, loc2 \in DistanceLocations :
       haversine_distance_call(loc1, loc2)

NextDistance == HaversineDistance

SpecDistance == Init /\ [][NextDistance]_vars

----------------------------------------------------------------------------
(* SpecGate: every gated endpoint, called by two of the registered users    *)
(* with their own token, another user's, or one no login made, before and   *)
(* after the sessions expire                                                *)

GateUsers == {1, 2}

\* what a caller presents here
GateTokens(user_id) == {TokenOf(user_id), TokenOf(3), sha256("bogus")}

\* location headers, split on ","
GateLocations == {<<"0", "1">>}

GateUpdateLocation ==
    \E user_id \in {1}, location \in GateLocations :
      \E sessiontoken \in GateTokens(user_id) :
        update_user_location_endpoint(user_id, sessiontoken, location)

\* bodies of update_user_profile, sent by user 2
GateProfiles ==
    {[username |-> "nick", email |-> MainEmails[2], location |-> <<0, 0>>]}

GateUpdateProfile ==
    \E user_id \in {2}, user_data \in GateProfiles :
      \E sessiontoken \in GateTokens(user_id) :
        update_user_profile_endpoint(user_id, sessiontoken, user_data)

GateCreateEvent ==
    \E user_id \in {1}, event_dict \in EventDicts :
      \E sessiontoken \in GateTokens(user_id) :
        create_event_endpoint(user_id, sessiontoken, event_dict)

\* bodies of update_event, with and without the event_id key
GateEventUpdates ==
    {[event_id |-> e, activity_name |-> "hiking"] : e \in EventIds}
    \cup {[activity_name |-> "hiking"]}

GateUpdateEvent ==
    \E user_id \in GateUsers, event_data \in GateEventUpdates :
      \E sessiontoken \in GateTokens(user_id) :
        update_event_endpoint(user_id, sessiontoken, event_data)

GateCloseEvent ==
    \E user_id \in GateUsers, request_data \in CloseBodies \cup {EmptyBody} :
      \E sessiontoken \in GateTokens(user_id) :
        close_event_endpoint(user_id, sessiontoken, request_data)

\* bodies of filter_events
GateCriteria ==
    {[activity_names |-> <<"chess", "hiking">>, pref_genders |-> {"female"},
      min_age |-> 20, max_age |-> 40, radius |-> 120]}

GateFilterEvents ==
    \E user_id \in GateUsers, filter_criteria \in GateCriteria :
      \E sessiontoken \in GateTokens(user_id) :
        filter_events_endpoint(user_id, sessiontoken, filter_criteria)

GateRequestToJoin ==
    \E user_id \in {2}, event_id \in EventIds :
      \E sessiontoken \in GateTokens(user_id) :
        /\ Len(participation_requests) < 1
        /\ request_to_join_event_endpoint(user_id, sessiontoken, event_id)

GateAcceptUpdate ==
    \E c \in CallSlots, user_id \in GateUsers, event_id \in EventIds :
      \E sessiontoken \in GateTokens(user_id) :
        accept_participant_update(c, user_id, sessiontoken, 2, event_id)

GateRemoveParticipant ==
    \E user_id \in GateUsers, remove_data \in RemoveBodies \cup {EmptyBody} :
      \E sessiontoken \in GateTokens(user_id) :
        remove_participant_endpoint(user_id, sessiontoken, remove_data)

\* bodies of read_chatblock and of write_chatblock, with and without a key
GateChatReads == {[chat_id |-> 1], EmptyBody}
GateChatWrites == {<<<<1, "hi">>>>, <<>>}

GateReadChat ==
    \E user_id \in GateUsers, chat_data \in GateChatReads :
      \E sessiontoken \in GateTokens(user_id) :
        read_chatblock_endpoint(user_id, sessiontoken, chat_data)

GateWriteChat ==
    \E user_id \in GateUsers, chat_data \in GateChatWrites :
      \E sessiontoken \in GateTokens(user_id) :
        write_chatblock_endpoint(user_id, sessiontoken, chat_data)

GateDidIMatch ==
    \E user_id \in GateUsers :
      \E sessiontoken \in GateTokens(user_id) :
        did_I_match_endpoint(user_id, sessiontoken)

GateIsParticipant ==
    \E user_id \in GateUsers, event_id \in EventIds :
      \E sessiontoken \in GateTokens(user_id) :
        is_participant_endpoint(user_id, sessiontoken, event_id, 2)

GateIncomingRequests ==
    \E user_id \in GateUsers, event_id \in EventIds :
      \E sessiontoken \in GateTokens(user_id) :
        get_incoming_requests_endpoint(user_id, sessiontoken, event_id)

NextGate ==
    \/ GateUpdateLocation
    \/ GateUpdateProfile
    \/ GateCreateEvent
    \/ GateUpdateEvent
    \/ GateCloseEvent
    \/ GateFilterEvents
    \/ GateRequestToJoin
    \/ GateAcceptUpdate
    \/ AcceptClose
    \/ GateRemoveParticipant
    \/ GateReadChat
    \/ GateWriteChat
    \/ GateDidIMatch
    \/ GateIsParticipant
    \/ GateIncomingRequests
    \/ Tick(SessionDays)

SpecGate == Init /\ [][NextGate]_vars

----------------------------------------------------------------------------
(* Claims on the participation state machine *)

\* the participants whose request for event_id is Accepted
AcceptedParticipants(event_id) ==
    {r.request_participant :
        r \in {x \in Range(participation_requests) :
                  x.event_id = event_id /\ x.accepted_status = Accepted}}

\* the request rows of one (event, participant) pair
PairRows(db, event_id, participant_id) ==
    {r \in Range(db) : r.event_id = event_id
                       /\ r.request_participant = participant_id}

\* C1: in every state reached by calls made one after the other, every event
\* has at most one participant whose request is Accepted.
C1_AtMostOneAccepted ==
    \A e \in EventIds : Cardinality(AcceptedParticipants(e)) <= 1

\* C2: once the is_open flag of an event is false, no step sets it to true.
C2_ClosedStaysClosed ==
    [][ \A i \in 1..Len(events) :
           ~events[i].is_open => ~events'[i].is_open ]_vars

\* C3: after an accept_participant call has succeeded for one participant of
\* an event, a later accept_participant call of the same creator for another
\* participant with a pending request on that event is refused with 404 or
\* 401 and leaves the requests as they were.
C3_SecondAcceptRefused ==
    [][ (/\ AllIdle
         /\ resp'.op = "accept_participant"
         /\ resp'.code \notin {200, 500}
         /\ LET participant_id == resp'.args[1]
                event_id == resp'.args[2]
            IN  /\ \E r \in Range(participation_requests) :
                      /\ r.event_id = event_id
                      /\ r.event_creator = resp'.user
                      /\ r.request_participant # participant_id
                      /\ r.accepted_status = Accepted
                /\ \E r \in PairRows(participation_requests, event_id,
                                     participant_id) :
                      /\ r.event_creator = resp'.user
                      /\ r.accepted_status = NULL)
        => (/\ resp'.code \in {401, 404}
            /\ participation_requests' = participation_requests) ]_vars

\* C4: while one accept_participant call stands between its status update and
\* its close_event, the status update of another accept_participant call by
\* the creator for a different participant of the same event is not refused:
\* it sets that participant's requests to Accepted and leaves the first
\* participant's requests as they are, so both are Accepted before either
\* call has closed the event.
C4_ConcurrentAcceptNotRefused ==
    [][ \A c \in CallSlots :
          (/\ calls[c].pc = "close"
           /\ resp'.op = "accept_participant"
           /\ resp'.code \in {0, 404}
           /\ resp'.args[2] = calls[c].event_id
           /\ resp'.args[1] # calls[c].participant_id
           /\ TripleRows(participation_requests, resp'.args[2], resp'.user,
                         resp'.args[1]) # {})
          => (/\ resp'.code = 0
              /\ \A i \in 1..Len(participation_requests) :
                   LET r == participation_requests[i]
                   IN  IF /\ r.event_id = resp'.args[2]
                          /\ r.event_creator = resp'.user
                          /\ r.request_participant = resp'.args[1]
                       THEN participation_requests'[i].accepted_status = Accepted
                       ELSE participation_requests'[i] = r) ]_vars

\* two accept_participant calls of one event, for two participants, both
\* between update and close: both requests Accepted, the event still open
C4_Witness ==
    /\ calls[1].pc = "close" /\ calls[2].pc = "close"
    /\ calls[1].event_id = calls[2].event_id
    /\ calls[1].participant_id # calls[2].participant_id
    /\ {calls[1].participant_id, calls[2].participant_id}
          \subseteq AcceptedParticipants(calls[1].event_id)
    /\ \E e \in Range(events) : e.event_id = calls[1].event_id /\ e.is_open

\* C5: the status update of an accept_participant call that finds the request
\* sets every request of the (event, creator, participant) triple to Accepted
\* and keeps the chat id stored on one of them; the call then answers 200
\* with that chat id, and the event's is_open flag is false when it does.
C5_AcceptSetsReturnsCloses ==
    [][ /\ (resp'.op = "accept_participant" /\ resp'.code = 0) =>
             LET hit == TripleRows(participation_requests, resp'.args[2],
                                   resp'.user, resp'.args[1])
             IN  /\ hit # {}
                 /\ \A i \in hit :
                      participation_requests'[i].accepted_status = Accepted
                 /\ \E c \in CallSlots :
                      /\ calls[c].pc = "idle" /\ calls'[c].pc = "close"
                      /\ \E i \in hit :
                           calls'[c].chat_id = participation_requests[i].chat_id
        /\ (resp'.op = "accept_participant" /\ resp'.code = 200) =>
             /\ \E r \in PairRows(participation_requests', resp'.args[2],
                                  resp'.args[1]) :
                   r.chat_id = resp'.body /\ r.event_creator = resp'.user
             /\ \A e \in Range(events') :
                   e.event_id = resp'.args[2] => ~e.is_open
             /\ \E e \in Range(events') : e.event_id = resp'.args[2]
      ]_vars

\* an accept_participant call answered 200: the request Accepted, its chat id
\* returned, the event closed
C5_Witness ==
    /\ resp.op = "accept_participant" /\ resp.code = 200
    /\ \E r \in PairRows(participation_requests, resp.args[2], resp.args[1]) :
          r.chat_id = resp.body /\ r.accepted_status = Accepted
    /\ \E e \in Range(events) : e.event_id = resp.args[2] /\ ~e.is_open

----------------------------------------------------------------------------
(* Claims on the gate of the endpoints, checked under SpecGate *)

\* a row of the session store with this user and this token whose expiry is
\* strictly later than the current time
SessionRowFor(user_id, token) ==
    \E i \in 1..Len(user_sessions) :
        /\ user_sessions[i].user_id = user_id
        /\ user_sessions[i].token = token
        /\ now < user_sessions[i].expiry

GatedOps ==
    {"update_user_location", "update_user_profile", "create_event",
     "update_event", "delete_event", "filter_events", "request_to_join_event",
     "accept_participant", "remove_participant", "read_chatblock",
     "write_chatblock", "did_I_match", "is_participant", "get_incoming_requests"}

\* the step is a call arriving at a gated endpoint with a (user, token) pair
\* the session store does not hold unexpired; the second statement of an
\* accept_participant call that passed the gate earlier is no such step
RefusedCall ==
    /\ resp'.op \in GatedOps
    /\ \A c \in CallSlots : calls[c].pc = "close" => calls'[c].pc = "close"
    /\ ~SessionRowFor(resp'.user, resp'.token)

\* the body of the call lacks a key the handler reads before its gate
BodyLacksKey ==
    \/ /\ resp'.op \in {"update_event", "delete_event"}
       /\ "event_id" \notin DOMAIN resp'.args[1]
    \/ /\ resp'.op = "remove_participant"
       /\ {"participant_id", "event_id"} \ DOMAIN resp'.args[1] # {}
    \/ /\ resp'.op = "read_chatblock"
       /\ "chat_id" \notin DOMAIN resp'.args[1]
    \/ /\ resp'.op = "write_chatblock"
       /\ Len(resp'.args[1]) = 0

\* C7: every call of a gated endpoint whose (user, token) pair is not a valid
\* session is answered 401, and leaves the users, the events, the
\* participation requests and the session store as they were.
C7_InvalidSessionUnauthorized ==
    [][ RefusedCall =>
          /\ resp'.code = 401
          /\ UNCHANGED <<users, users_auth, user_sessions, events,
                         participation_requests>> ]_vars

\* C7, what the handlers do: a call without a valid session changes no store;
\* it is answered 401, except 500 when its body lacks a key that the handler
\* reads before the gate.
C7_InvalidSessionChangesNothing ==
    [][ RefusedCall =>
          /\ resp'.code = IF BodyLacksKey THEN 500 ELSE 401
          /\ UNCHANGED <<users, users_auth, user_sessions, events,
                         participation_requests, calls>> ]_vars

\* a call with another user's token refused while that user's session is
\* valid, with an event and a request in the stores
C7_Witness ==
    /\ resp.op \in GatedOps /\ resp.code = 401
    /\ resp.token = TokenOf(3) /\ SessionRowFor(3, resp.token)
    /\ ~SessionRowFor(resp.user, resp.token)
    /\ Len(events) > 0 /\ Len(participation_requests) > 0

----------------------------------------------------------------------------
(* Claims on the session gate and the login, checked under SpecAuth *)

\* C8: isSessionValid(userId, token) is a boolean, true exactly when the
\* session store holds a row with that user, that token and an expiry strictly
\* greater than the current time; the gate of an endpoint answers 401 exactly
\* when there is no such row.
C8_SessionValidIffRow ==
    /\ \A user_id \in 1..MaxUsers, token \in TokenInputs :
          /\ is_authenticated(user_id, token) \in BOOLEAN
          /\ is_authenticated(user_id, token) <=> SessionRowFor(user_id, token)
    /\ resp.op = "did_I_match" =>
          (resp.code = 401 <=> ~SessionRowFor(resp.user, resp.token))

\* a state with a valid pair, the same token refused for another user, and a
\* row whose expiry equals the current time refused at the gate
C8_Witness ==
    \E i, j \in 1..Len(user_sessions) :
        LET r == user_sessions[i]
            q == user_sessions[j]
        IN  /\ is_authenticated(r.user_id, r.token)
            /\ \E u \in 1..MaxUsers :
                  u # r.user_id /\ ~is_authenticated(u, r.token)
            /\ q.expiry = now
            /\ ~is_authenticated(q.user_id, q.token)
            /\ resp.op = "did_I_match" /\ resp.code = 401
            /\ resp.user = q.user_id /\ resp.token = q.token

\* C9: no step removes a session row or changes its user, token or expiry; a
\* valid (user, token) pair is still valid after a step that ends before its
\* expiry; a pair whose expiry the clock has reached is invalid after every
\* later step.
C9_SessionsOnlyExpire ==
    [][ /\ Len(user_sessions') >= Len(user_sessions)
        /\ \A i \in 1..Len(user_sessions) :
              LET r == user_sessions[i]
              IN  /\ user_sessions'[i] = r
                  /\ (is_authenticated(r.user_id, r.token) /\ now' < r.expiry)
                        => authenticate_session_token(user_sessions', now',
                                                      r.user_id, r.token)
                  /\ now >= r.expiry
                        => ~authenticate_session_token(user_sessions', now',
                                                       r.user_id, r.token)
      ]_vars

\* the user logged in again after the first session expired: the old pair is
\* refused, the new one is valid
C9_Witness ==
    \E i, j \in 1..Len(user_sessions) :
        LET r == user_sessions[i]
            q == user_sessions[j]
        IN  /\ i < j /\ r.user_id = q.user_id
            /\ now >= r.expiry /\ ~is_authenticated(r.user_id, r.token)
            /\ is_authenticated(q.user_id, q.token)

\* the stored hash equals the hash of the password given and the stored salt
CredentialsMatch(email, password) ==
    \E r \in Range(users_auth) :
        r.email = email /\ r.hashed_password = sha256(password \o r.salt)

\* C10 as stated: a login adds a session row if and only if the email exists
\* and the hash of (password + stored salt) equals the stored hash.
C10_LoginIffCredentials ==
    [][ resp'.op = "login_user" =>
          ((user_sessions' # user_sessions)
             <=> CredentialsMatch(resp'.args[1], resp'.args[2]))
      ]_vars

\* C10 as amended: a login adds a session row if and only if the email and
\* the password given are not empty, the email exists and the hash of
\* (password + stored salt) equals the stored hash; the row added belongs to
\* that email's user and expires 30 days after the login; every other login
\* is answered 400 and leaves the session store unchanged.
C10_LoginIffNonEmptyCredentials ==
    [][ resp'.op = "login_user" =>
          LET email == resp'.args[1]
              password == resp'.args[2]
          IN  IF email # "" /\ password # "" /\ CredentialsMatch(email, password)
              THEN /\ resp'.code = 200
                   /\ \E r \in Range(users_auth) :
                        /\ r.email = email
                        /\ resp'.body[1] = r.user_id
                        /\ user_sessions' =
                             Append(user_sessions,
                                    [user_id |-> r.user_id,
                                     token |-> resp'.body[2],
                                     expiry |-> now + SessionDays])
              ELSE /\ resp'.code = 400
                   /\ user_sessions' = user_sessions
      ]_vars

\* a login that succeeded: the last row is the caller's, 30 days from now
C10_Witness ==
    /\ resp.op = "login_user" /\ resp.code = 200
    /\ Len(user_sessions) > 0
    /\ LET r == user_sessions[Len(user_sessions)]
       IN  /\ r.user_id = resp.body[1] /\ r.token = resp.body[2]
           /\ r.expiry = now + SessionDays
           /\ \E a \in Range(users_auth) :
                 a.user_id = r.user_id /\ a.email = resp.args[1]

----------------------------------------------------------------------------
(* Requests to join (SpecChat, Spec) *)

\* C11: a request_to_join_event call with a valid session that names an event
\* id no row of events carries is answered 404 and adds no participation
\* request row.
C11_RequestUnknownEventNotFound ==
    [][(/\ resp'.op = "request_to_join_event"
        /\ SessionRowFor(resp'.user, resp'.token)
        /\ \A e \in Range(events) : e.event_id # resp'.args[1])
       => /\ resp'.code = 404
          /\ participation_requests' = participation_requests]_vars

\* an event exists, a request is stored, and a call naming another event id
\* was answered 404
C11_Witness ==
    /\ resp.op = "request_to_join_event"
    /\ resp.code = 404
    /\ Len(events) = 1
    /\ Len(participation_requests) = 1
    /\ \A e \in Range(events) : e.event_id # resp.args[1]

\* C12: every request_to_join_event call with a valid session on an existing
\* event is answered 200 and appends one pending row with a chat id no earlier
\* row has, also when a row of the same (event, participant) is already there;
\* the earlier rows stay as they were.
C12_RepeatedRequestAddsRow ==
    [][(/\ resp'.op = "request_to_join_event"
        /\ SessionRowFor(resp'.user, resp'.token)
        /\ \E e \in Range(events) : e.event_id = resp'.args[1])
       => /\ resp'.code = 200
          /\ Len(participation_requests') = Len(participation_requests) + 1
          /\ SubSeq(participation_requests', 1, Len(participation_requests))
               = participation_requests
          /\ LET row == participation_requests'[Len(participation_requests')]
             IN  /\ row.event_id = resp'.args[1]
                 /\ row.request_participant = resp'.user
                 /\ row.accepted_status = NULL
                 /\ \A r \in Range(participation_requests) :
                      r.chat_id # row.chat_id]_vars

\* the second call of the same participant on the same event has just been
\* answered 200: two rows of the pair, with two chat ids
C12_Witness ==
    /\ resp.op = "request_to_join_event"
    /\ resp.code = 200
    /\ Len(participation_requests) = 2
    /\ participation_requests[1].event_id = participation_requests[2].event_id
    /\ participation_requests[1].request_participant = resp.user
    /\ participation_requests[2].request_participant = resp.user
    /\ participation_requests[1].chat_id # participation_requests[2].chat_id

\* C13: a participation request row gets its chat id when request_to_join_event
\* inserts it, and no step of any endpoint (accept_participant,
\* remove_participant, write_chatblock, delete_event, update_event, ...)
\* changes the chat id of a row or drops a row.
C13_ChatIdStable ==
    [][/\ Len(participation_requests') >= Len(participation_requests)
       /\ \A i \in 1..Len(participation_requests) :
            participation_requests'[i].chat_id = participation_requests[i].chat_id
       /\ \A i \in (Len(participation_requests) + 1)..Len(participation_requests') :
            /\ resp'.op = "request_to_join_event"
            /\ participation_requests'[i].chat_id \in ChatIds]_vars

\* a row that was accepted (its event is closed), then removed, then written
\* to, still with the chat id it was made with
C13_Witness ==
    /\ resp.op = "write_chatblock"
    /\ resp.code = 200
    /\ Len(participation_requests) = 2
    /\ participation_requests[1].accepted_status = Rejected
    /\ participation_requests[1].chat_block = "hi"
    /\ participation_requests[1].chat_id = 1
    /\ \E e \in Range(events) :
         e.event_id = participation_requests[1].event_id /\ ~e.is_open

----------------------------------------------------------------------------
(* Chats (SpecChat) *)

\* the chat id a read_chatblock or write_chatblock call names
ChatIdOf(call) ==
    IF call.op = "read_chatblock" THEN call.args[1].chat_id
    ELSE call.args[1][1][1]

\* the rows of chat_id on which user_id is the event creator or the request
\* participant
MemberRows(db, chat_id, user_id) ==
    {i \in 1..Len(db) : /\ db[i].chat_id = chat_id
                        /\ user_id \in {db[i].event_creator,
                                        db[i].request_participant}}

\* C14: a read_chatblock or write_chatblock call with a valid session is
\* answered 200 exactly when the caller is the event_creator or the
\* request_participant of a request row holding the chat id; then the read
\* gives that row's transcript and the write sets it on that row and no other.
\* Any other caller gets 404, the read's answer carries no transcript and the
\* write leaves every row as it was.
C14_ChatMembersOnly ==
    [][(/\ resp'.op \in {"read_chatblock", "write_chatblock"}
        /\ SessionRowFor(resp'.user, resp'.token))
       => LET member == MemberRows(participation_requests, ChatIdOf(resp'),
                                   resp'.user)
          IN  /\ resp'.code = IF member = {} THEN 404 ELSE 200
              /\ resp'.op = "read_chatblock" =>
                   /\ participation_requests' = participation_requests
                   /\ IF member = {}
                      THEN resp'.body = "Chatblock not found."
                      ELSE \E i \in member :
                             resp'.body = participation_requests[i].chat_block
              /\ resp'.op = "write_chatblock" =>
                   /\ Len(participation_requests') = Len(participation_requests)
                   /\ \A i \in 1..Len(participation_requests) :
                        participation_requests'[i] =
                          IF i \in member
                          THEN [participation_requests[i] EXCEPT
                                  !.chat_block = resp'.args[1][1][2]]
                          ELSE participation_requests[i]]_vars

\* a user who is neither the creator nor the participant of an existing chat
\* wrote to it, was answered 404, and the transcript is still unwritten
C14_Witness ==
    /\ resp.op = "write_chatblock"
    /\ resp.code = 404
    /\ \E r \in Range(participation_requests) :
         /\ r.chat_id = ChatIdOf(resp)
         /\ resp.user \notin {r.event_creator, r.request_participant}
         /\ r.chat_block = NULL

\* C15: read_chatblock and write_chatblock are answered 200 only on a chat
\* whose request has been accepted: never while the request row holding the
\* chat id is pending or rejected.
C15_ChatOnlyOnceAccepted ==
    [][(/\ resp'.op \in {"read_chatblock", "write_chatblock"}
        /\ resp'.code = 200)
       => \A r \in Range(participation_requests) :
            r.chat_id = ChatIdOf(resp') => r.accepted_status = Accepted]_vars

----------------------------------------------------------------------------
(* did_I_match (SpecChat) *)

\* the request rows of user_id whose event is open now
OpenRequestsOf(user_id) ==
    {i \in 1..Len(participation_requests) :
        /\ participation_requests[i].request_participant = user_id
        /\ \E e \in Range(events) :
             /\ e.event_id = participation_requests[i].event_id
             /\ e.is_open = TRUE}

C17_AcceptedEventOmitted ==
    [][(/\ resp'.op = "did_I_match"
        /\ resp'.code = 200
        /\ AllIdle)
       => \A r \in Range(participation_requests) :
            (/\ r.request_participant = resp'.user
             /\ r.accepted_status = Accepted)
            => \A k \in 1..Len(resp'.body.event_id) :
                 resp'.body.event_id[k] # r.event_id]_vars

\* C18: did_I_match lists only requests that are pending or accepted: a
\* request of the caller with accepted_status = false is in no answer, also
\* while its event is open.  (A chat id names one request row.)
C18_RejectedNotListed ==
    [][(/\ resp'.op = "did_I_match"
        /\ resp'.code = 200)
       => \A r \in Range(participation_requests) :
            (/\ r.request_participant = resp'.user
             /\ r.accepted_status = Rejected)
            => \A k \in 1..Len(resp'.body.chat_id) :
                 resp'.body.chat_id[k] # r.chat_id]_vars

----------------------------------------------------------------------------
(* remove_participant (Spec) *)

\* C19: a remove_participant call answered 200 has set accepted_status to
\* false on the request rows of its (event, caller as creator, participant)
\* triple, of which there is at least one, has left every other row as it
\* was, and has left the events table, the is_open flags with it, untouched:
\* a closed event stays closed.
C19_RemoveRejectsKeepsEvent ==
    [][(/\ resp'.op = "remove_participant"
        /\ resp'.code = 200)
       => LET hit == {i \in 1..Len(participation_requests) :
                        /\ participation_requests[i].event_id =
                             resp'.args[1].event_id
                        /\ participation_requests[i].event_creator = resp'.user
                        /\ participation_requests[i].request_participant =
                             resp'.args[1].participant_id}
          IN  /\ hit # {}
              /\ Len(participation_requests') = Len(participation_requests)
              /\ \A i \in 1..Len(participation_requests) :
                   participation_requests'[i] =
                     IF i \in hit
                     THEN [participation_requests[i] EXCEPT
                             !.accepted_status = Rejected]
                     ELSE participation_requests[i]
              /\ events' = events]_vars

\* the participant of a closed event has been removed: the request is
\* rejected and the event is closed still
C19_Witness ==
    /\ resp.op = "remove_participant"
    /\ resp.code = 200
    /\ AllIdle
    /\ \E r \in Range(participation_requests) :
         /\ r.event_id = resp.args[1].event_id
         /\ r.request_participant = resp.args[1].participant_id
         /\ r.accepted_status = Rejected
         /\ \E e \in Range(events) : e.event_id = r.event_id /\ ~e.is_open

\* the request rows of the triple a remove_participant call names
RemoveTriple(call) ==
    {i \in 1..Len(participation_requests) :
        /\ participation_requests[i].event_id = call.args[1].event_id
        /\ participation_requests[i].event_creator = call.user
        /\ participation_requests[i].request_participant =
             call.args[1].participant_id}

\* C20 as claimed: a remove_participant call with a valid session is answered
\* 404 and changes nothing when no row of its triple is pending or accepted,
\* the case of rows already rejected included.
C20_RemoveNoLiveRowNotFound ==
    [][(/\ resp'.op = "remove_participant"
        /\ SessionRowFor(resp'.user, resp'.token)
        /\ \A i \in RemoveTriple(resp') :
             participation_requests[i].accepted_status = Rejected)
       => /\ resp'.code = 404
          /\ UNCHANGED <<events, participation_requests>>]_vars

\* C20 (amended): a remove_participant call with a valid session is answered
\* 404 exactly when no request row has its (event, caller as creator,
\* participant) triple, and then changes nothing; when the rows of the triple
\* are all rejected already it is answered 200 and changes nothing either.
C20_RemoveNoRowNotFound ==
    [][(/\ resp'.op = "remove_participant"
        /\ SessionRowFor(resp'.user, resp'.token))
       => /\ resp'.code = IF RemoveTriple(resp') = {} THEN 404 ELSE 200
          /\ (\A i \in RemoveTriple(resp') :
                 participation_requests[i].accepted_status = Rejected)
             => UNCHANGED <<events, participation_requests>>]_vars

\* requests exist on the event, none of the triple called for: 404
C20_Witness ==
    /\ resp.op = "remove_participant"
    /\ resp.code = 404
    /\ RemoveTriple(resp) = {}
    /\ \E r \in Range(participation_requests) :
         r.event_id = resp.args[1].event_id

----------------------------------------------------------------------------
(* The status of a request (SpecSeq) *)

\* C21: Accepted and Rejected are terminal: no step takes the
\* accepted_status of a request row from true to false or from false to true.
C21_DecidedStatusTerminal ==
    [][\A i \in 1..Len(participation_requests) :
         /\ participation_requests[i].accepted_status = Accepted
              => participation_requests'[i].accepted_status # Rejected
         /\ participation_requests[i].accepted_status = Rejected
              => participation_requests'[i].accepted_status # Accepted]_vars

\* C24: an event takes requests to join only while it is open: a
\* request_to_join_event call on an event whose is_open is false adds no
\* participation request row.
C24_ClosedEventTakesNoRequest ==
    [][(/\ resp'.op = "request_to_join_event"
        /\ \E e \in Range(events) :
             e.event_id = resp'.args[1] /\ ~e.is_open)
       => participation_requests' = participation_requests]_vars

----------------------------------------------------------------------------
(* Closing an event (Spec, SpecClose) *)

\* C23: a delete_event call with a valid session closes the event it names
\* exactly when the caller is the event's initiated_by: then it is answered
\* 200 and that event alone gets is_open = false.  For any other caller, and
\* for an event id no row carries, it is answered 403 and the events table is
\* as it was.  Requests are never touched.
C23_OnlyInitiatorCloses ==
    [][(/\ resp'.op = "delete_event"
        /\ SessionRowFor(resp'.user, resp'.token))
       => LET event_id == resp'.args[1].event_id
              own == \E e \in Range(events) :
                       e.event_id = event_id /\ e.initiated_by = resp'.user
          IN  /\ resp'.code = IF own THEN 200 ELSE 403
              /\ Len(events') = Len(events)
              /\ \A i \in 1..Len(events) :
                   events'[i] = IF own /\ events[i].event_id = event_id
                                THEN [events[i] EXCEPT !.is_open = FALSE]
                                ELSE events[i]
              /\ participation_requests' = participation_requests]_vars

\* a user who is not the initiator asked to close an open event: 403, and the
\* event is open
C23_Witness ==
    /\ resp.op = "delete_event"
    /\ resp.code = 403
    /\ \E e \in Range(events) :
         /\ e.event_id = resp.args[1].event_id
         /\ e.initiated_by # resp.user
         /\ e.is_open

\* C22: close_event(event_id) sets is_open to false on the event of that id,
\* whatever the flag was, and returns; where no event has the id it raises
\* ValueError ("No event found") and the table is as it was.  It touches no
\* other event and no participation request.
C22_CloseEventUnconditional ==
    [][resp'.op = "close_event"
       => LET event_id == resp'.args[1]
          IN  /\ resp'.body =
                   IF \E e \in Range(events) : e.event_id = event_id
                   THEN "None" ELSE "ValueError"
              /\ Len(events') = Len(events)
              /\ \A i \in 1..Len(events) :
                   events'[i] = IF events[i].event_id = event_id
                                THEN [events[i] EXCEPT !.is_open = FALSE]
                                ELSE events[i]
              /\ participation_requests' = participation_requests]_vars

\* close_event was called with an id no event has, while an open event with a
\* request exists: ValueError, the event open as before
C22_Witness ==
    /\ resp.op = "close_event"
    /\ resp.body = "ValueError"
    /\ Len(events) = 1
    /\ events[1].is_open
    /\ Len(participation_requests) = 1

\* C29: when the close step of an accept_participant call fails after its
\* UPDATE has been applied, the call is answered 500, the failing step changes
\* neither table, and the requests of the call's triple are Accepted still:
\* the status update is not undone and the event has not been closed.
C29_FailedCloseKeepsAccept ==
    [][(/\ resp'.op = "accept_participant"
        /\ resp'.code = 500)
       => /\ UNCHANGED <<events, participation_requests>>
          /\ LET hit == {i \in 1..Len(participation_requests') :
                          /\ participation_requests'[i].event_id = resp'.args[2]
                          /\ participation_requests'[i].event_creator = resp'.user
                          /\ participation_requests'[i].request_participant =
                               resp'.args[1]}
             IN  /\ hit # {}
                 /\ \A i \in hit :
                      participation_requests'[i].accepted_status = Accepted]_vars

\* the call has been answered 500: the request is Accepted and its event is
\* open
C29_Witness ==
    /\ resp.op = "accept_participant"
    /\ resp.code = 500
    /\ AllIdle
    /\ \E r \in Range(participation_requests) :
         /\ r.event_id = resp.args[2]
         /\ r.request_participant = resp.args[1]
         /\ r.accepted_status = Accepted
         /\ \E e \in Range(events) : e.event_id = r.event_id /\ e.is_open

----------------------------------------------------------------------------
(* Registration (SpecAuth) *)

\* C30: a register_user call that fails leaves no partial record: after a
\* call answered with an error the users table and the users_auth table are
\* what they were before it.
C30_FailedRegisterLeavesNothing ==
    [][(/\ resp'.op = "register_user"
        /\ resp'.code # 200)
       => UNCHANGED <<users, users_auth>>]_vars

----------------------------------------------------------------------------
(* filter_events (SpecFilter) *)

\* the location stored for the caller of a call
CallerLocation(call) ==
    LET row == CHOOSE r \in Range(users) : r.user_id = call.user
    IN  row.location

\* the event ids a filter_events answer lists
ReturnedIds(call) ==
    {call.body.event_ids[k] : k \in 1..Len(call.body.event_ids)}

\* the activity ids the names of a criteria stand for
NamedActivities(criteria) ==
    {Activities[criteria.activity_names[k]] :
        k \in {j \in 1..Len(criteria.activity_names) :
                 criteria.activity_names[j] \in DOMAIN Activities}}

\* event e is a candidate of the criteria by activity, age range and gender
Candidate(e, criteria) ==
    /\ e.activity_id \in NamedActivities(criteria)
    /\ e.participant_min_age <= criteria.max_age
    /\ e.participant_max_age >= criteria.min_age
    /\ e.participant_pref_genders \cap criteria.pref_genders # {}

\* C25: every event a filter_events call returns lies at a distance of at
\* most the radius from the caller's location and shares a preferred gender
\* with the criteria; a candidate event at the radius exactly is returned.
C25_WithinRadiusSharesGender ==
    [][(/\ resp'.op = "filter_events"
        /\ resp'.code = 200)
       => LET criteria == resp'.args[1]
              here == CallerLocation(resp')
          IN  /\ \A e \in Range(events) :
                   e.event_id \in ReturnedIds(resp')
                   => /\ haversine_distance(here, e.location) >= 0
                      /\ haversine_distance(here, e.location) <= criteria.radius
                      /\ e.participant_pref_genders \cap criteria.pref_genders
                           # {}
              /\ \A e \in Range(events) :
                   (/\ Candidate(e, criteria)
                    /\ haversine_distance(here, e.location) = criteria.radius)
                   => e.event_id \in ReturnedIds(resp')]_vars

\* an answer that lists an event at the radius exactly and leaves out the
\* other event
C25_Witness ==
    /\ resp.op = "filter_events"
    /\ resp.code = 200
    /\ Cardinality(ReturnedIds(resp)) = 1
    /\ \E e \in Range(events) :
         /\ e.event_id \in ReturnedIds(resp)
         /\ haversine_distance(CallerLocation(resp), e.location)
              = resp.args[1].radius
         /\ resp.args[1].radius > 0

\* the age range of event e and the range of the criteria have an age in
\* common
RangesOverlap(e, criteria) ==
    \E age \in 0..60 :
       /\ e.participant_min_age <= age /\ age <= e.participant_max_age
       /\ criteria.min_age <= age /\ age <= criteria.max_age

\* C26: the age test of filter_events is overlap, not containment: every
\* event returned has an age in common with the criteria's range, and an
\* event of a named activity that shares a gender and lies within the radius
\* is returned as soon as the two ranges have an age in common (an event for
\* 18..30 is returned for 25..40 and is not returned for 31..40).
C26_AgeRangesOverlap ==
    [][(/\ resp'.op = "filter_events"
        /\ resp'.code = 200)
       => LET criteria == resp'.args[1]
              here == CallerLocation(resp')
          IN  \A e \in Range(events) :
                 e.event_id \in ReturnedIds(resp')
                 <=> /\ e.activity_id \in NamedActivities(criteria)
                     /\ RangesOverlap(e, criteria)
                     /\ e.participant_pref_genders \cap criteria.pref_genders
                          # {}
                     /\ haversine_distance(here, e.location)
                          <= criteria.radius]_vars

\* an answer to criteria 25..40 that lists an event for 18..30, and does not
\* list every event
C26_Witness ==
    /\ resp.op = "filter_events"
    /\ resp.code = 200
    /\ resp.args[1].min_age = 25
    /\ resp.args[1].max_age = 40
    /\ \E e \in Range(events) :
         /\ e.event_id \in ReturnedIds(resp)
         /\ e.participant_min_age = 18
         /\ e.participant_max_age = 30
    /\ \E e \in Range(events) : e.event_id \notin ReturnedIds(resp)

\* the criteria name an activity the activities table does not hold
NamesUnknownActivity(criteria) ==
    \E k \in 1..Len(criteria.activity_names) :
       criteria.activity_names[k] \notin DOMAIN Activities

\* C27: a filter_events call of an authenticated caller whose criteria name
\* an unknown activity fails with NotFound (404) and returns no event list,
\* whatever the other names are.
C27_UnknownActivityNotFound ==
    [][(/\ resp'.op = "filter_events"
        /\ resp'.code # 401
        /\ NamesUnknownActivity(resp'.args[1]))
       => resp'.code = 404]_vars

\* what does hold of such a call: it is answered with an error and no event
\* list, also when the other names it carries are known and have events
C27_UnknownActivityFailsWhole ==
    [][(/\ resp'.op = "filter_events"
        /\ resp'.code # 401
        /\ NamesUnknownActivity(resp'.args[1]))
       => /\ resp'.code = 500
          /\ resp'.body = "Internal Server Error"]_vars

\* the place of the event with this id in the events table, which is the
\* order the query without ORDER BY returns the rows in
PlaceOf(event_id) ==
    CHOOSE k \in 1..Len(events) : events[k].event_id = event_id

HeaderLocation(location) == [i \in 1..Len(location) |-> Float[location[i]]]

\* C31: after an update_user_location call answered 200, the stored location
\* of the caller is the new location and every open event the caller
\* initiated has the new location as its coordinates.
C31_LocationReachesOpenEvents ==
    [][(/\ resp'.op = "update_user_location"
        /\ resp'.code = 200)
       => LET new_location == HeaderLocation(resp'.args[1])
          IN  /\ \A r \in Range(users') :
                    r.user_id = resp'.user => r.location = new_location
              /\ \A e \in Range(events') :
                    (e.initiated_by = resp'.user /\ e.is_open)
                    => e.location = new_location]_vars

\* what does hold of such a call: the caller's row holds the new location,
\* and no event is changed
C31_LocationStoredEventsKept ==
    [][(/\ resp'.op = "update_user_location"
        /\ resp'.code = 200)
       => /\ \A r \in Range(users') :
               r.user_id = resp'.user
               => r.location = HeaderLocation(resp'.args[1])
          /\ events' = events]_vars

\* row r of the requests is row q but for its status and its transcript
SameRequest(r, q) ==
    /\ r.event_id = q.event_id
    /\ r.event_creator = q.event_creator
    /\ r.request_participant = q.request_participant
    /\ r.chat_id = q.chat_id

\* C32: no step removes a participation request or sets a decided status
\* back to null: the table only grows, and a row changes only in its status
\* and its transcript.
C32_RequestsOnlyGrow ==
    [][/\ Len(participation_requests') >= Len(participation_requests)
       /\ \A i \in 1..Len(participation_requests) :
            /\ SameRequest(participation_requests'[i], participation_requests[i])
            /\ participation_requests[i].accepted_status # NULL
               => participation_requests'[i].accepted_status # NULL]_vars

\* a remove_participant call answered 200 whose request is still in the
\* table, Rejected, next to another request
C32_Witness ==
    /\ resp.op = "remove_participant"
    /\ resp.code = 200
    /\ Len(participation_requests) = MaxRequests
    /\ \E r \in Range(participation_requests) :
         /\ r.event_id = resp.args[1].event_id
         /\ r.request_participant = resp.args[1].participant_id
         /\ r.accepted_status = Rejected
         /\ r.chat_block # NULL

\* the text new holds the text old in it; a transcript never written (null)
\* holds nothing
Contains(new, old) ==
    \/ old = NULL
    \/ \E a, b \in {""} \cup WriteTexts : new = a \o old \o b

\* the rows a write_chatblock call wrote to
WrittenRows(call) ==
    ChatRows(participation_requests, call.args[1][1][1], call.user)

\* C33 as stated: after a write_chatblock call answered 200, the transcript
\* still holds what it held before the write.
C33_WriteKeepsEarlierContent ==
    [][(/\ resp'.op = "write_chatblock"
        /\ resp'.code = 200)
       => \A i \in 1..Len(participation_requests) :
             Contains(participation_requests'[i].chat_block,
                      participation_requests[i].chat_block)]_vars

\* C33 as the code has it: after a write_chatblock call answered 200, the
\* transcript of the chat is the text written, whatever it held before, and
\* every other transcript is as it was.
C33_WriteReplacesContent ==
    [][(/\ resp'.op = "write_chatblock"
        /\ resp'.code = 200)
       => \A i \in 1..Len(participation_requests) :
             participation_requests'[i].chat_block =
                IF i \in WrittenRows(resp')
                THEN resp'.args[1][1][2]
                ELSE participation_requests[i].chat_block]_vars

\* a write answered 200 that left its text as the transcript of its chat,
\* next to a request whose transcript was never written
C33_Witness ==
    /\ resp.op = "write_chatblock"
    /\ resp.code = 200
    /\ resp.args[1][1][2] = "yo"
    /\ \E r \in Range(participation_requests) :
         r.chat_id = resp.args[1][1][1] /\ r.chat_block = "yo"
    /\ \E r \in Range(participation_requests) : r.chat_block = NULL

\* C34: haversine_distance gives the same distance for a pair of locations
\* in either order (and fails for both orders or for neither), and the
\* distance of a point to itself is 0.
C34_DistanceSymmetricZero ==
    [][resp'.op = "haversine_distance"
       => LET a == resp'.args[1]
              b == resp'.args[2]
          IN  /\ resp'.body = haversine_distance_formula(b, a)
              /\ (a = b /\ Len(a) = 2) => resp'.body = 0]_vars

\* a distance between two points of different latitude, neither 0 nor a
\* failure
C34_Witness ==
    /\ resp.op = "haversine_distance"
    /\ Len(resp.args[1]) = 2
    /\ Len(resp.args[2]) = 2
    /\ resp.args[1][1] # resp.args[2][1]
    /\ resp.args[1][2] # resp.args[2][2]
    /\ resp.body > 0

\* C35: an accept_participant call of an authenticated user for a triple
\* (event, creator, participant) no request row has is answered 404 before
\* the close step: no event, no request and no pending call is changed.
C35_AcceptNoRowNotFound ==
    [][resp'.op = "accept_participant"
       => LET norow == TripleRows(participation_requests, resp'.args[2],
                                  resp'.user, resp'.args[1]) = {}
          IN  /\ (norow /\ resp'.code # 401) => resp'.code = 404
              /\ resp'.code = 404
                 => /\ norow
                    /\ events' = events
                    /\ participation_requests' = participation_requests
                    /\ calls' = calls]_vars

\* an accept answered 404 while the event it names is open and has a request
\* of another triple
C35_Witness ==
    /\ resp.op = "accept_participant"
    /\ resp.code = 404
    /\ \E e \in Range(events) : e.event_id = resp.args[2] /\ e.is_open
    /\ \E r \in Range(participation_requests) : r.event_id = resp.args[2]

\* C36: a request_to_join_event call answered 200 appends exactly one row,
\* of the event named, the caller as participant, the event's initiator at
\* that moment as creator and status null, and changes no other row and no
\* event.
C36_RequestAddsOnePendingRow ==
    [][(/\ resp'.op = "request_to_join_event"
        /\ resp'.code = 200)
       => LET n == Len(participation_requests)
              new == participation_requests'[n + 1]
          IN  /\ Len(participation_requests') = n + 1
              /\ \A i \in 1..n :
                    participation_requests'[i] = participation_requests[i]
              /\ new.event_id = resp'.args[1]
              /\ new.request_participant = resp'.user
              /\ \E e \in Range(events) :
                    /\ e.event_id = new.event_id
                    /\ e.initiated_by = new.event_creator
              /\ new.accepted_status = NULL
              /\ events' = events]_vars

\* a request answered 200 on an event whose initiator an update_event call
\* changed, added to a table that held a decided request
C36_Witness ==
    /\ resp.op = "request_to_join_event"
    /\ resp.code = 200
    /\ Len(participation_requests) = MaxRequests
    /\ participation_requests[1].accepted_status # NULL
    /\ participation_requests[MaxRequests].event_creator = 2
    /\ participation_requests[MaxRequests].accepted_status = NULL

\* C37: in every reachable state the event_creator of each participation
\* request is the initiator of the event the request names.
C37_CreatorIsInitiator ==
    \A r \in Range(participation_requests) :
       \E e \in Range(events) :
          /\ e.event_id = r.event_id
          /\ e.initiated_by = r.event_creator

\* C38: the status of a participation request changes only in a step of
\* accept_participant or remove_participant whose caller holds a valid
\* session and is the event_creator of that request.
C38_OnlyCreatorChangesStatus ==
    [][\A i \in 1..Len(participation_requests) :
          participation_requests'[i].accepted_status
             # participation_requests[i].accepted_status
          => /\ resp'.op \in {"accept_participant", "remove_participant"}
             /\ resp'.user = participation_requests[i].event_creator
             /\ is_authenticated(resp'.user, resp'.token)]_vars

\* a request decided by a call of its creator, who is not its participant
C38_Witness ==
    /\ resp.op \in {"accept_participant", "remove_participant"}
    /\ resp.code \in {0, 200}
    /\ \E r \in Range(participation_requests) :
         /\ r.accepted_status # NULL
         /\ r.event_creator = resp.user
         /\ r.request_participant # resp.user

\* C39: no two participation requests hold the same chat id, and a
\* write_chatblock call answered 200 changes the transcript of the one
\* request that holds the chat id it names and nothing else.
C39_ChatIdNamesOneRequest ==
    [][/\ \A i, j \in 1..Len(participation_requests') :
            participation_requests'[i].chat_id
               = participation_requests'[j].chat_id => i = j
       /\ (resp'.op = "write_chatblock" /\ resp'.code = 200)
          => /\ Len(participation_requests') = Len(participation_requests)
             /\ \E i \in 1..Len(participation_requests) :
                  /\ participation_requests[i].chat_id = resp'.args[1][1][1]
                  /\ participation_requests'[i].chat_block = resp'.args[1][1][2]
                  /\ \A j \in 1..Len(participation_requests) :
                       j # i => participation_requests'[j]
                                   = participation_requests[j]]_vars

\* two requests of the same participant on the same event, each with its own
\* chat id, of which a write answered 200 changed the second alone
C39_Witness ==
    /\ resp.op = "write_chatblock"
    /\ resp.code = 200
    /\ Len(participation_requests) = 2
    /\ participation_requests[1].request_participant
         = participation_requests[2].request_participant
    /\ participation_requests[1].event_id = participation_requests[2].event_id
    /\ participation_requests[1].chat_id # participation_requests[2].chat_id
    /\ participation_requests[2].chat_id = resp.args[1][1][1]
    /\ participation_requests[2].chat_block = resp.args[1][1][2]
    /\ participation_requests[1].chat_block = NULL

\* the events table with its is_open column set as flags says
WithFlags(evs, flags) ==
    [i \in 1..Len(evs) |-> [evs[i] EXCEPT !.is_open = flags[i]]]

\* the ids filter_events lists for a table, a caller's location and criteria
FilteredIds(evs, here, criteria) ==
    LET kept == filter_relevant_events(
                   relevant_events_query(evs, NamedActivities(criteria), criteria),
                   here, criteria)
    IN  [i \in 1..Len(kept) |-> kept[i].event_id]

\* C40: the answer of filter_events does not depend on the is_open flags:
\* with the flags of the events set in any other way, the same caller and
\* criteria get the same list, so a closed event that meets the criteria is
\* listed.
C40_FilterIgnoresOpenFlag ==
    [][(/\ resp'.op = "filter_events"
        /\ resp'.code = 200)
       => \A flags \in [1..Len(events) -> BOOLEAN] :
             resp'.body.event_ids
                = FilteredIds(WithFlags(events, flags), CallerLocation(resp'),
                              resp'.args[1])]_vars

\* an answer that lists a closed event
C40_Witness ==
    /\ resp.op = "filter_events"
    /\ resp.code = 200
    /\ \E e \in Range(events) :
         /\ ~e.is_open
         /\ e.event_id \in ReturnedIds(resp)

====
